---- MODULE Spec2Model ----
(***************************************************************************)
(* Model of the CV document composer of the cv-aligner repository:        *)
(*   scripts/generate_cv.js   generateCV(data, outputPath)   (server/CLI)   *)
(*   public/app.js            generateAndDownloadDocx(cvData) (browser)     *)
(* A document is the ordered list of block-level paragraphs ("children")   *)
(* the generator pushes before it hands them to the docx library.          *)
(***************************************************************************)
EXTENDS Integers, Sequences, FiniteSets, TLC

\* ------------------------------------------------------------------ bounds
MaxEntries == 2        \* longest entry sequence drawn in the order-rich inputs
MaxAchievements == 3   \* longest achievements sequence drawn
MaxCompetencies == 3   \* longest coreCompetencies sequence drawn

\* ------------------------------------------------------- JavaScript values
\* A string-valued property that is missing (undefined) or null.
UNDEF == "<undefined>"

\* An array-valued property: defined |-> FALSE is a missing property.
Undefined == [defined |-> FALSE, items |-> <<>>]
Arr(s) == [defined |-> TRUE, items |-> s]

\* Truthiness of a string-valued property: undefined, null and "" are falsy.
TruthyStr(s) == s # UNDEF /\ s # ""

\* text: of a TextRun: a run whose text is undefined carries no text.
RunText(s) == IF s = UNDEF THEN "" ELSE s

\* The bullet glyph U+2022, written in ASCII.
BULLET == "<U+2022>"

\* Array.prototype.join(sep) over the items from index i on.
RECURSIVE JoinFrom(_, _, _)
JoinFrom(items, sep, i) ==
  IF i > Len(items) THEN ""
  ELSE IF i = Len(items) THEN items[i]
  ELSE items[i] \o sep \o JoinFrom(items, sep, i + 1)

Join(items, sep) == JoinFrom(items, sep, 1)

\* String.prototype.toUpperCase() on the section labels the generators pass.
ToUpperCase(t) ==
  CASE t = "Professional Summary" -> "PROFESSIONAL SUMMARY"
    [] t = "Core Competencies" -> "CORE COMPETENCIES"
    [] t = "Professional Experience" -> "PROFESSIONAL EXPERIENCE"
    [] t = "Education & Certification" -> "EDUCATION & CERTIFICATION"
    [] t = "Leadership" -> "LEADERSHIP"
    [] t = "Technical Skills & Languages" -> "TECHNICAL SKILLS & LANGUAGES"
    [] OTHER -> t

\* --------------------------------------------------- result of a code path
\* A code path either completes with the blocks it pushed or throws a
\* TypeError (a property read on undefined) after the blocks pushed so far.
Ok(b) == [threw |-> FALSE, blocks |-> b]
Thrown == [threw |-> TRUE, blocks |-> <<>>]

\* Sequential composition of two code paths: the second runs only when the
\* first completed.
Then(r1, r2) ==
  IF r1.threw THEN r1
  ELSE [threw |-> r2.threw, blocks |-> r1.blocks \o r2.blocks]

\* The guard written `x.length > 0`: reading .length of undefined throws.
LengthOnlyGuard(a) ==
  IF ~a.defined THEN "throws"
  ELSE IF Len(a.items) > 0 THEN "true" ELSE "false"

\* The guard `x && x.length > 0` of generate_cv.js: && short-circuits, so
\* .length is read only of a defined array.
GuardNonEmpty(a) ==
  IF ~a.defined THEN "false"
  ELSE IF Len(a.items) > 0 THEN "true" ELSE "false"

\* The guard `x?.length` of app.js: undefined for a missing array, else the
\* truthiness of its length.
GuardOptLength(a) ==
  IF ~a.defined THEN "false"
  ELSE IF Len(a.items) # 0 THEN "true" ELSE "false"

\* if (guard) { body }
Guarded(g, body) ==
  CASE g = "throws" -> Thrown
    [] g = "true" -> body
    [] OTHER -> Ok(<<>>)

\* ------------------------------------------------------------------ blocks
\* One Paragraph pushed to children. kind, section, entry and index record
\* which push statement, which section of the generator and which forEach
\* iteration produced it; text is the concatenated text of its runs;
\* keepNext, keepLines and numbering are the Paragraph options of that name
\* (numbering "" when the paragraph is no list item).
Block(kind, section, text, keepNext, keepLines, numbering, entry, index) ==
  [kind |-> kind, section |-> section, text |-> text, keepNext |-> keepNext,
   keepLines |-> keepLines, numbering |-> numbering, entry |-> entry,
   index |-> index]

SEC_LOGO == "Logo"
SEC_NAME == "Name"
SEC_SUMMARY == "Professional Summary"
SEC_COMPETENCIES == "Core Competencies"
SEC_EXPERIENCE == "Professional Experience"
SEC_EDUCATION == "Education & Certification"
SEC_LEADERSHIP == "Leadership"
SEC_TECHNICAL == "Technical Skills & Languages"


\* ------------------------------------------- scripts/generate_cv.js helpers
createSectionHeading(text) ==
  Block("heading", text, ToUpperCase(text), TRUE, TRUE, "", 0, 0)

createJobHeader(role, company, location, dates, entry) ==
  Block("jobHeader", SEC_EXPERIENCE,
        role \o " | " \o company \o ", " \o location \o " | " \o dates,
        TRUE, TRUE, "", entry, 0)

createBulletPoint(text, reference, keepWithNext, section, entry, index) ==
  Block("bullet", section, text, keepWithNext, TRUE, reference, entry, index)

\* The loop running to length - 1: the last achievement is not rendered.
BulletsAllButLastDropped(achievements, reference, section, entry) ==
  [k \in 1..(Len(achievements) - 1) |->
     createBulletPoint(achievements[k], reference,
                       ~((k - 1) = Len(achievements) - 1), section, entry, k)]

\* The loop running from the last achievement to the first.
BulletsReversed(achievements, reference, section, entry) ==
  [k \in 1..Len(achievements) |->
     createBulletPoint(achievements[Len(achievements) + 1 - k], reference,
                       ~((k - 1) = Len(achievements) - 1), section, entry, k)]

\* createBulletPoint called with keepWithNext true for every achievement.
BulletsAllKeptWithNext(achievements, reference, section, entry) ==
  [k \in 1..Len(achievements) |->
     createBulletPoint(achievements[k], reference, TRUE, section, entry, k)]

\* createBulletPoint called with isLastBullet where !isLastBullet stands.
BulletsLastKeptWithNext(achievements, reference, section, entry) ==
  [k \in 1..Len(achievements) |->
     createBulletPoint(achievements[k], reference,
                       (k - 1) = Len(achievements) - 1, section, entry, k)]

\* achievements.forEach((achievement, index) => ...) of one entry: index is
\* the 0-based forEach index, stored 1-based in the block.
Bullets(achievements, reference, section, entry) ==
  [k \in 1..Len(achievements) |->
     createBulletPoint(achievements[k], reference,
                       ~((k - 1) = Len(achievements) - 1), section, entry, k)]

\* ------------------------------------------- generateCV, section by section
\* The logo paragraph pushed without the fs.existsSync(LOGO_PATH) check.
LogoSectionUnguarded(logo) ==
  <<Block("logo", SEC_LOGO, "", FALSE, FALSE, "", 0, 0)>>

\* if (fs.existsSync(LOGO_PATH)) children.push(logo paragraph)
LogoSection(logo) ==
  IF logo THEN <<Block("logo", SEC_LOGO, "", FALSE, FALSE, "", 0, 0)>>
  ELSE <<>>

NameSection(d) ==
  <<Block("name", SEC_NAME, RunText(d.name), FALSE, FALSE, "", 0, 0)>>

SummarySection(d) ==
  IF TruthyStr(d.professionalSummary)
  THEN <<createSectionHeading("Professional Summary"),
         Block("paragraph", SEC_SUMMARY, d.professionalSummary,
               FALSE, TRUE, "", 0, 0)>>
  ELSE <<>>

CompetenciesSection(d) ==
  Guarded(GuardNonEmpty(d.coreCompetencies),
    Ok(<<createSectionHeading("Core Competencies"),
         Block("paragraph", SEC_COMPETENCIES,
               Join(d.coreCompetencies.items, "  " \o BULLET \o "  "),
               FALSE, TRUE, "", 0, 0)>>))

\* One iteration of data.professionalExperience.forEach.
JobBlocks(job, entry) ==
  Then(Ok(<<createJobHeader(job.role, job.company, job.location, job.dates,
                            entry)>>),
       Guarded(GuardNonEmpty(job.achievements),
               Ok(Bullets(job.achievements.items, "experience-bullets",
                          SEC_EXPERIENCE, entry))))

RECURSIVE ExperienceEntries(_, _)
ExperienceEntries(jobs, i) ==
  IF i > Len(jobs) THEN Ok(<<>>)
  ELSE Then(JobBlocks(jobs[i], i), ExperienceEntries(jobs, i + 1))

ExperienceSection(d) ==
  Guarded(GuardNonEmpty(d.professionalExperience),
    Then(Ok(<<createSectionHeading("Professional Experience")>>),
         ExperienceEntries(d.professionalExperience.items, 1)))

\* One iteration of data.education.forEach.
EducationBlocks(edu, entry) ==
  <<Block("degree", SEC_EDUCATION, edu.degree, TRUE, TRUE, "", entry, 0),
    Block("institution", SEC_EDUCATION,
          edu.institution \o ", " \o edu.location \o " | " \o edu.date,
          TruthyStr(edu.details), TRUE, "", entry, 0)>>
  \o (IF TruthyStr(edu.details)
      THEN <<Block("eduDetails", SEC_EDUCATION, edu.details,
                   FALSE, TRUE, "", entry, 0)>>
      ELSE <<>>)

RECURSIVE EducationEntries(_, _)
EducationEntries(edus, i) ==
  IF i > Len(edus) THEN <<>>
  ELSE EducationBlocks(edus[i], i) \o EducationEntries(edus, i + 1)

\* One iteration of data.certifications.forEach: the details run is kept by
\* .filter(Boolean) only when cert.details is truthy.
CertificationBlock(cert, entry) ==
  Block("cert", SEC_EDUCATION,
        cert.name \o (IF TruthyStr(cert.details) THEN " | " \o cert.details
                      ELSE ""),
        FALSE, TRUE, "", entry, 0)

CertificationEntries(certs) ==
  [i \in 1..Len(certs) |-> CertificationBlock(certs[i], i)]

\* The section with its heading pushed outside the presence check.
EducationHeadingUnconditional(d) ==
  LET hasEducation == GuardNonEmpty(d.education)
      hasCertifications == GuardNonEmpty(d.certifications)
  IN IF hasEducation = "throws" \/ hasCertifications = "throws" THEN Thrown
     ELSE Ok(<<createSectionHeading("Education & Certification")>>
             \o (IF hasEducation = "true"
                 THEN EducationEntries(d.education.items, 1)
                 ELSE <<>>)
             \o (IF hasCertifications = "true"
                 THEN CertificationEntries(d.certifications.items)
                 ELSE <<>>))

EducationSection(d) ==
  LET hasEducation == GuardNonEmpty(d.education)
      hasCertifications == GuardNonEmpty(d.certifications)
  IN IF hasEducation = "throws" \/ hasCertifications = "throws" THEN Thrown
     ELSE IF hasEducation = "true" \/ hasCertifications = "true"
     THEN Ok(<<createSectionHeading("Education & Certification")>>
             \o (IF hasEducation = "true"
                 THEN EducationEntries(d.education.items, 1)
                 ELSE <<>>)
             \o (IF hasCertifications = "true"
                 THEN CertificationEntries(d.certifications.items)
                 ELSE <<>>))
     ELSE Ok(<<>>)

\* One iteration of data.leadership.forEach.
LeadershipBlocks(lead, entry) ==
  Then(Ok(<<Block("leadHeader", SEC_LEADERSHIP,
                  lead.role \o " | " \o lead.organization \o " | "
                  \o lead.dates,
                  TRUE, TRUE, "", entry, 0)>>),
       Guarded(GuardNonEmpty(lead.achievements),
               Ok(Bullets(lead.achievements.items, "leadership-bullets",
                          SEC_LEADERSHIP, entry))))

RECURSIVE LeadershipEntries(_, _)
LeadershipEntries(leads, i) ==
  IF i > Len(leads) THEN Ok(<<>>)
  ELSE Then(LeadershipBlocks(leads[i], i), LeadershipEntries(leads, i + 1))

LeadershipSection(d) ==
  Guarded(GuardNonEmpty(d.leadership),
    Then(Ok(<<createSectionHeading("Leadership")>>),
         LeadershipEntries(d.leadership.items, 1)))

\* if (data.technicalSkills): any object, also an empty one, is truthy.
TechnicalSection(d) ==
  LET ts == d.technicalSkills IN
  IF ts.defined
  THEN <<createSectionHeading("Technical Skills & Languages")>>
       \o (IF TruthyStr(ts.technical)
           THEN <<Block("technical", SEC_TECHNICAL,
                        "Technical: " \o ts.technical,
                        TruthyStr(ts.languages), TRUE, "", 0, 0)>>
           ELSE <<>>)
       \o (IF TruthyStr(ts.languages)
           THEN <<Block("languages", SEC_TECHNICAL,
                        "Languages: " \o ts.languages,
                        FALSE, TRUE, "", 0, 0)>>
           ELSE <<>>)
  ELSE <<>>

\* The Leadership statements placed before the Education statements.
ChildrenLeadershipBeforeEducation(d, logo) ==
  Then(Ok(LogoSection(logo) \o NameSection(d) \o SummarySection(d)),
  Then(CompetenciesSection(d),
  Then(ExperienceSection(d),
  Then(LeadershipSection(d),
  Then(EducationSection(d),
       Ok(TechnicalSection(d)))))))

\* The children list generateCV builds, in statement order.
GenerateCVChildren(d, logo) ==
  Then(Ok(LogoSection(logo) \o NameSection(d) \o SummarySection(d)),
  Then(CompetenciesSection(d),
  Then(ExperienceSection(d),
  Then(EducationSection(d),
  Then(LeadershipSection(d),
       Ok(TechnicalSection(d)))))))

\* ------------------------------------------------- new Document({ ... })
\* The tab character and the copyright sign, written in ASCII.
TAB == "<TAB>"
COPYRIGHT == "<U+00A9>"

\* new TextRun({ text }) and new TextRun({ children: [PageNumber.X] }): a
\* run of literal text, or a field the renderer fills in on each page.
TextRun(text) == [text |-> RunText(text), field |-> "none"]
PageNumberRun(field) == [text |-> "", field |-> field]

\* numbering.config: one level-0 bullet definition per reference.
NumberingConfig ==
  << [reference |-> "experience-bullets", level |-> 0, format |-> "bullet",
      text |-> BULLET],
     [reference |-> "leadership-bullets", level |-> 0, format |-> "bullet",
      text |-> BULLET] >>

\* The paragraph of headers.default.
HeaderParagraph(d) ==
  << TextRun("Noviam Analyst: "), TextRun(d.name), TextRun(TAB),
     TextRun("Private and Confidential") >>

\* The paragraph of footers.default and of footers.first.
FooterParagraph ==
  << TextRun(COPYRIGHT \o " 2026, Noviam Inc. All Rights Reserved."),
     TextRun(TAB), TextRun("Page "), PageNumberRun("CURRENT"),
     TextRun(" of "), PageNumberRun("TOTAL_PAGES") >>

\* The document with footers.first built like headers.first: no children.
DocumentWithEmptyFirstFooter(d, blocks) ==
  [numbering |-> NumberingConfig,
   sections |->
     << [titlePage |-> TRUE,
         headers |-> [default |-> <<HeaderParagraph(d)>>, first |-> <<>>],
         footers |-> [default |-> <<FooterParagraph>>, first |-> <<>>],
         children |-> blocks] >>]

\* The Document generateCV builds around its children.
ServerDocument(d, blocks) ==
  [numbering |-> NumberingConfig,
   sections |->
     << [titlePage |-> TRUE,
         headers |-> [default |-> <<HeaderParagraph(d)>>, first |-> <<>>],
         footers |-> [default |-> <<FooterParagraph>>,
                      first |-> <<FooterParagraph>>],
         children |-> blocks] >>]

\* What a page shows: with titlePage set the first page takes the first
\* header and footer, every other page the default ones.
HeaderOnPage(section, page) ==
  IF section.titlePage /\ page = 1 THEN section.headers.first
  ELSE section.headers.default
FooterOnPage(section, page) ==
  IF section.titlePage /\ page = 1 THEN section.footers.first
  ELSE section.footers.default


\* ---------------------------------- generateAndDownloadDocx (browser side)
\* Its paragraphs set neither keepNext nor keepLines nor numbering.
ClientSectionHeading(text) ==
  Block("heading", text, ToUpperCase(text), FALSE, FALSE, "", 0, 0)

ClientJobHeader(role, company, location, dates, entry) ==
  Block("jobHeader", SEC_EXPERIENCE,
        role \o " | " \o company \o ", " \o location \o " | " \o dates,
        FALSE, FALSE, "", entry, 0)

\* createBullet: a plain paragraph whose text starts with the glyph.
createBullet(text, section, entry, index) ==
  Block("bullet", section, BULLET \o " " \o text, FALSE, FALSE, "", entry,
        index)

\* for (const achievement of x.achievements || [])
ClientBullets(achievements, section, entry) ==
  IF achievements.defined
  THEN [k \in 1..Len(achievements.items) |->
          createBullet(achievements.items[k], section, entry, k)]
  ELSE <<>>

ClientNameSection(d) ==
  <<Block("name", SEC_NAME, RunText(d.name), FALSE, FALSE, "", 0, 0)>>

\* The summary heading and paragraph are pushed without a presence check.
ClientSummarySection(d) ==
  <<ClientSectionHeading("Professional Summary"),
    Block("paragraph", SEC_SUMMARY, RunText(d.professionalSummary),
          FALSE, FALSE, "", 0, 0)>>

ClientCompetenciesSection(d) ==
  IF GuardOptLength(d.coreCompetencies) = "true"
  THEN <<ClientSectionHeading("Core Competencies"),
         Block("paragraph", SEC_COMPETENCIES,
               Join(d.coreCompetencies.items, " " \o BULLET \o " "),
               FALSE, FALSE, "", 0, 0)>>
  ELSE <<>>

RECURSIVE ClientExperienceEntries(_, _)
ClientExperienceEntries(jobs, i) ==
  IF i > Len(jobs) THEN <<>>
  ELSE <<ClientJobHeader(jobs[i].role, jobs[i].company, jobs[i].location,
                         jobs[i].dates, i)>>
       \o ClientBullets(jobs[i].achievements, SEC_EXPERIENCE, i)
       \o ClientExperienceEntries(jobs, i + 1)

ClientExperienceSection(d) ==
  IF GuardOptLength(d.professionalExperience) = "true"
  THEN <<ClientSectionHeading("Professional Experience")>>
       \o ClientExperienceEntries(d.professionalExperience.items, 1)
  ELSE <<>>

ClientEducationBlocks(edu, entry) ==
  <<Block("degree", SEC_EDUCATION, edu.degree, FALSE, FALSE, "", entry, 0),
    Block("institution", SEC_EDUCATION,
          edu.institution \o ", " \o edu.location \o " | " \o edu.date,
          FALSE, FALSE, "", entry, 0)>>
  \o (IF TruthyStr(edu.details)
      THEN <<Block("eduDetails", SEC_EDUCATION, edu.details,
                   FALSE, FALSE, "", entry, 0)>>
      ELSE <<>>)

RECURSIVE ClientEducationEntries(_, _)
ClientEducationEntries(edus, i) ==
  IF i > Len(edus) THEN <<>>
  ELSE ClientEducationBlocks(edus[i], i) \o ClientEducationEntries(edus, i + 1)

\* The heading is pushed inside the education check alone.
ClientEducationSection(d) ==
  IF GuardOptLength(d.education) = "true"
  THEN <<ClientSectionHeading("Education & Certification")>>
       \o ClientEducationEntries(d.education.items, 1)
  ELSE <<>>

ClientCertificationBlock(cert, entry) ==
  Block("cert", SEC_EDUCATION,
        cert.name \o (IF TruthyStr(cert.details) THEN " | " \o cert.details
                      ELSE ""),
        FALSE, FALSE, "", entry, 0)

\* The certification paragraphs are pushed under no heading of their own.
ClientCertificationsSection(d) ==
  IF GuardOptLength(d.certifications) = "true"
  THEN [i \in 1..Len(d.certifications.items) |->
          ClientCertificationBlock(d.certifications.items[i], i)]
  ELSE <<>>

RECURSIVE ClientLeadershipEntries(_, _)
ClientLeadershipEntries(leads, i) ==
  IF i > Len(leads) THEN <<>>
  ELSE <<Block("leadHeader", SEC_LEADERSHIP,
               leads[i].role \o " | " \o leads[i].organization \o " | "
               \o leads[i].dates,
               FALSE, FALSE, "", i, 0)>>
       \o ClientBullets(leads[i].achievements, SEC_LEADERSHIP, i)
       \o ClientLeadershipEntries(leads, i + 1)

ClientLeadershipSection(d) ==
  IF GuardOptLength(d.leadership) = "true"
  THEN <<ClientSectionHeading("Leadership")>>
       \o ClientLeadershipEntries(d.leadership.items, 1)
  ELSE <<>>

ClientTechnicalSection(d) ==
  LET ts == d.technicalSkills IN
  IF ts.defined
  THEN <<ClientSectionHeading("Technical Skills & Languages")>>
       \o (IF TruthyStr(ts.technical)
           THEN <<Block("technical", SEC_TECHNICAL,
                        "Technical: " \o ts.technical,
                        FALSE, FALSE, "", 0, 0)>>
           ELSE <<>>)
       \o (IF TruthyStr(ts.languages)
           THEN <<Block("languages", SEC_TECHNICAL,
                        "Languages: " \o ts.languages,
                        FALSE, FALSE, "", 0, 0)>>
           ELSE <<>>)
  ELSE <<>>

\* The children list generateAndDownloadDocx builds, in statement order.
ClientChildren(d) ==
  Ok(ClientNameSection(d) \o ClientSummarySection(d)
     \o ClientCompetenciesSection(d) \o ClientExperienceSection(d)
     \o ClientEducationSection(d) \o ClientCertificationsSection(d)
     \o ClientLeadershipSection(d) \o ClientTechnicalSection(d))

\* The Document generateAndDownloadDocx builds: one section with margins,
\* no numbering, no headers, no footers.
ClientDocument(blocks) ==
  [numbering |-> <<>>,
   sections |->
     << [titlePage |-> FALSE,
         headers |-> [default |-> <<>>, first |-> <<>>],
         footers |-> [default |-> <<>>, first |-> <<>>],
         children |-> blocks] >>]


\* ------------------------------------------------------------------ inputs
\* The JSON data object of the header comment of generate_cv.js.
Data(name, summary, cc, pe, edu, cert, lead, ts) ==
  [name |-> name, professionalSummary |-> summary, coreCompetencies |-> cc,
   professionalExperience |-> pe, education |-> edu, certifications |-> cert,
   leadership |-> lead, technicalSkills |-> ts]

Job(role, achievements) ==
  [role |-> role, company |-> "Acme", location |-> "Paris",
   dates |-> "2020 - 2024", achievements |-> achievements]

Lead(role, achievements) ==
  [role |-> role, organization |-> "Chess Club", dates |-> "2018 - 2019",
   achievements |-> achievements]

Edu(degree, details) ==
  [degree |-> degree, institution |-> "MIT", location |-> "Boston",
   date |-> "2019", details |-> details]

Cert(name, details) == [name |-> name, details |-> details]

NoTechnicalSkills == [defined |-> FALSE, technical |-> UNDEF, languages |-> UNDEF]
TechnicalSkills(t, l) == [defined |-> TRUE, technical |-> t, languages |-> l]

SeqsUpTo(S, n) == UNION {[1..k -> S] : k \in 0..n}

\* Only name and professionalSummary set, every other field omitted.
Minimal(name, summary) ==
  Data(name, summary, Undefined, Undefined, Undefined, Undefined, Undefined,
       NoTechnicalSkills)

\* The data in place while no call is in progress.
NoData == Minimal(UNDEF, UNDEF)

AchievementSamples ==
  {Undefined, Arr(<<>>), Arr(<<"a1">>), Arr(<<"a1", "a2">>),
   Arr(<<"a2", "a1">>)}

TechnicalSamples ==
  {NoTechnicalSkills}
  \cup {TechnicalSkills(t, l) : t \in {UNDEF, "", "Excel"},
                                l \in {UNDEF, "", "English"}}

\* Every combination of an absent, an empty and a filled optional field.
PresenceInputs ==
  {Data("Jane Doe", "Summary", cc, pe, edu, cert, lead, ts) :
     cc \in {Undefined, Arr(<<>>), Arr(<<"B", "A">>)},
     pe \in {Undefined, Arr(<<>>)}
            \cup {Arr(<<Job("Analyst", a)>>) :
                    a \in {Undefined, Arr(<<>>), Arr(<<"a1", "a2">>)}},
     edu \in {Undefined, Arr(<<>>)}
             \cup {Arr(<<Edu("BSc", x)>>) : x \in {UNDEF, "", "Honours"}},
     cert \in {Undefined, Arr(<<>>)}
              \cup {Arr(<<Cert("CFA", x)>>) : x \in {UNDEF, "", "2021"}},
     lead \in {Undefined, Arr(<<>>)}
              \cup {Arr(<<Lead("Captain", a)>>) :
                      a \in {Undefined, Arr(<<>>), Arr(<<"a1", "a2">>)}},
     ts \in TechnicalSamples}

FullSample(name, summary) ==
  Data(name, summary, Arr(<<"B", "A", "C">>),
       Arr(<<Job("Analyst", Arr(<<"a1", "a2">>))>>),
       Arr(<<Edu("BSc", "Honours")>>), Arr(<<Cert("CFA", "2021")>>),
       Arr(<<Lead("Captain", Arr(<<"a1">>))>>),
       TechnicalSkills("Excel", "English"))

\* The required fields missing, empty or set.
RequiredInputs ==
  {Minimal(n, s) : n \in {UNDEF, "", "Jane Doe"},
                   s \in {UNDEF, "", "Summary"}}
  \cup
  {FullSample(n, s) : n \in {UNDEF, "", "Jane Doe"},
                      s \in {UNDEF, "", "Summary"}}

With(field, v) == [Minimal("Jane Doe", "Summary") EXCEPT ![field] = v]

\* Inputs rich in the order of one sequence.
CompetencyInputs ==
  {With("coreCompetencies", Arr(s)) :
     s \in SeqsUpTo({"A", "B", "C"}, MaxCompetencies)}

ExperienceInputs ==
  {With("professionalExperience", Arr(s)) :
     s \in SeqsUpTo({Job(r, a) : r \in {"Analyst", "Manager"},
                                 a \in AchievementSamples}, MaxEntries)}
  \cup
  {With("professionalExperience", Arr(<<Job("Analyst", Arr(a))>>)) :
     a \in SeqsUpTo({"a1", "a2"}, MaxAchievements)}

LeadershipInputs ==
  {With("leadership", Arr(s)) :
     s \in SeqsUpTo({Lead(r, a) : r \in {"Captain", "Treasurer"},
                                  a \in AchievementSamples}, MaxEntries)}
  \cup
  {With("leadership", Arr(<<Lead("Captain", Arr(a))>>)) :
     a \in SeqsUpTo({"a1", "a2"}, MaxAchievements)}

EducationInputs ==
  {[With("education", Arr(s)) EXCEPT !.certifications = c] :
     s \in SeqsUpTo({Edu(g, x) : g \in {"BSc", "MSc"},
                                 x \in {UNDEF, "", "Honours"}}, MaxEntries),
     c \in {Undefined, Arr(<<Cert("CFA", "2021")>>)}}

CertificationInputs ==
  {[With("certifications", Arr(s)) EXCEPT !.education = e] :
     s \in SeqsUpTo({Cert(n, x) : n \in {"CFA", "FRM"},
                                  x \in {UNDEF, "", "2021"}}, MaxEntries),
     e \in {Undefined, Arr(<<Edu("BSc", UNDEF)>>)}}

Inputs ==
  PresenceInputs \cup RequiredInputs \cup CompetencyInputs
  \cup ExperienceInputs \cup LeadershipInputs \cup EducationInputs
  \cup CertificationInputs


\* ------------------------------------------------------------------- state
VARIABLES
  data,        \* the caller's data object (the parsed JSON / alignedCVData)
  logoExists,  \* fs.existsSync(LOGO_PATH)
  pc,          \* "idle", "called", "packing", "done" or "threw"
  gen,         \* which generator ran: "none", "server" or "client"
  children,    \* the block list the generator built
  outFile,     \* the file at outputPath (server)
  download     \* the file handed to the browser's download (client)

\* The state of the wrapper lib/generator.js, of the server's uploads and of
\* the browser's download, which the composer's actions leave alone.
VARIABLES
  now,           \* Date.now(), in milliseconds since the model's start
  outputDir,     \* the files of OUTPUT_DIR: a set of [path, content]
  calls,         \* the wrapper's generateCV calls, by call id
  downloadName   \* a.download of the browser's last download, or <<>>

\* The state of the Express server's POST /api/align (server.js).
VARIABLES
  uploads,        \* the files of UPLOADS_DIR
  req,            \* the request being handled: body, files, environment
  handler,        \* where the handler of the request stands
  uploadedFiles,  \* the handler's array of paths to clean up
  jobDescriptionText,  \* the handler's variable of that name
  res,            \* the response sent: its status and error, or NoResponse
  served,         \* the number of requests received so far
  jdFrom,         \* where jobDescriptionText was last assigned from
  sent,           \* the number of responses sent to the request
  claudeCalls     \* the alignCV calls of the request: their arguments

composerVars == <<data, logoExists, pc, gen, children, outFile, download>>
wrapperVars == <<now, outputDir, calls, downloadName>>
serverVars ==
  <<uploads, req, handler, uploadedFiles, jobDescriptionText, res, served,
    jdFrom, sent, claudeCalls>>
\* The hourly timer of the server and what its passes saw and removed.
VARIABLES
  timer,       \* the time the next cleanupOldFiles pass is due
  lastPass,    \* the last pass: its time, the stats it read, what it removed
  survivors    \* the files the last pass left, with the passes each has seen

\* alignCV of lib/aligner.js and of api/align.js, and what is done with the
\* data it returns.
VARIABLES
  aligner,     \* which alignCV runs: "lib" or "api"
  response,    \* what callClaudeAPI resolved with, or NoClaudeResponse
  alignment,   \* alignCV's outcome: pending, returned (with data) or threw
  generated    \* the data the document generator was invoked with

\* The serverless handler of POST /api/align (api/align.js).
VARIABLES
  event,        \* the request: method, environment, content type, parts
  lambda,       \* where the handler stands
  lambdaJobDescription,  \* its jobDescriptionText and where it came from
  lambdaRes,    \* the response sent, or NoResponse
  lambdaSent,   \* the number of responses sent to the request
  lambdaCalls   \* the alignCV calls of the request: their arguments

\* The page of the frontend (public/app.js).
VARIABLES
  jdFileInput,     \* the file selected for the job description, or NoSelection
  jdTextarea,      \* the value of the job description textarea
  cvFileInput,     \* the file selected for the CV, or NoSelection
  submitBtn,       \* the submit button: [disabled]
  inFlight,        \* the requests fetch has sent and not settled: their forms
  successResult,   \* the success panel is displayed
  errorResult,     \* the error panel is displayed
  candidateNameEl, \* the text of the candidate name element
  alignedCVData,   \* the variable of that name, NullCV for null
  submissions,     \* the number of requests sent so far
  afterReset       \* resetForm has run and no submit event came since

cleanupVars == <<timer, lastPass, survivors>>
pageVars ==
  <<jdFileInput, jdTextarea, cvFileInput, submitBtn, inFlight, successResult,
    errorResult, candidateNameEl, alignedCVData, submissions, afterReset>>
lambdaVars ==
  <<event, lambda, lambdaJobDescription, lambdaRes, lambdaSent, lambdaCalls>>
alignVars == <<aligner, response, alignment, generated>>
vars ==
  <<composerVars, wrapperVars, serverVars, cleanupVars, alignVars, lambdaVars,
    pageVars>>

\* What each part of the program leaves alone.
exceptComposer ==
  <<wrapperVars, serverVars, cleanupVars, alignVars, lambdaVars,
    pageVars>>
exceptWrapper ==
  <<composerVars, serverVars, cleanupVars, alignVars, lambdaVars,
    pageVars>>
exceptServer ==
  <<composerVars, wrapperVars, cleanupVars, alignVars, lambdaVars,
    pageVars>>
exceptCleanup ==
  <<composerVars, serverVars, alignVars, lambdaVars,
    pageVars>>
exceptAlign ==
  <<composerVars, wrapperVars, serverVars, cleanupVars, lambdaVars,
    pageVars>>

exceptLambda ==
  <<composerVars, wrapperVars, serverVars, cleanupVars, alignVars,
    pageVars>>

exceptPage ==
  <<composerVars, wrapperVars, serverVars, cleanupVars, alignVars, lambdaVars>>

\* A parsed JSON value: not an object (null), or an object with its name and
\* professionalSummary (UNDEF when the key is missing or null).
JsonNull == [object |-> FALSE, name |-> UNDEF, professionalSummary |-> UNDEF]
JsonObject(name, summary) ==
  [object |-> TRUE, name |-> name, professionalSummary |-> summary]

NoClaudeResponse == [content |-> <<>>]
NoAlignment == [state |-> "none", data |-> JsonNull]

\* alignCV has not been called.
AlignerIdle ==
  /\ aligner = "none"
  /\ response = NoClaudeResponse
  /\ alignment = NoAlignment
  /\ generated = NoAlignment

\* One hour (60 * 60 * 1000 ms), in ticks of the model's clock.
OneHour == 2

\* app.listen's callback has run setInterval(cleanupOldFiles, one hour).
TimerSet ==
  /\ timer = OneHour
  /\ lastPass = [time |-> 0, stats |-> {}, removed |-> {}]
  /\ survivors = {}

MaxCalls == 2
CallIds == 1..MaxCalls

\* A call id that generateCV has not been called for.
NoCall ==
  [promise |-> "none", child |-> "none", name |-> <<>>, data |-> "none",
   jsonPath |-> <<>>, outputPath |-> <<>>, loaded |-> "none", code |-> 0,
   value |-> <<>>]

\* No wrapper call was made, OUTPUT_DIR is empty, nothing was downloaded.
WrapperIdle ==
  /\ now = 0
  /\ outputDir = {}
  /\ calls = [c \in CallIds |-> NoCall]
  /\ downloadName = <<>>

\* req.files[field] of a field no file was sent for
NoUpload == [request |-> 0, field |-> "none", kind |-> "none", ext |-> ""]
NoFiles == [jobDescription |-> NoUpload, cv |-> NoUpload]
NoRequest ==
  [apiKey |-> FALSE, jobDescriptionText |-> UNDEF, files |-> NoFiles,
   aligns |-> FALSE, generates |-> FALSE]
NoResponse == [status |-> 0, error |-> "none"]

\* The server listens, UPLOADS_DIR is empty, no request has arrived.
ServerIdle ==
  /\ uploads = {}
  /\ req = NoRequest
  /\ handler = "idle"
  /\ uploadedFiles = <<>>
  /\ jobDescriptionText = UNDEF
  /\ res = NoResponse
  /\ served = 0
  /\ jdFrom = "none"
  /\ sent = 0
  /\ claudeCalls = <<>>

\* parts[name] of a name the body has no part for
NoAttachment == [kind |-> "none", ext |-> ""]
NoEvent ==
  [method |-> "none", apiKey |-> FALSE, boundary |-> FALSE,
   jobDescriptionText |-> UNDEF, jobDescription |-> NoAttachment,
   cv |-> NoAttachment, aligns |-> FALSE]
NoJobDescription == [from |-> "none", text |-> ""]

\* No request has reached the serverless function.
LambdaIdle ==
  /\ event = NoEvent
  /\ lambda = "idle"
  /\ lambdaJobDescription = NoJobDescription
  /\ lambdaRes = NoResponse
  /\ lambdaSent = 0
  /\ lambdaCalls = <<>>

\* input.files of a file input without a file, and null
NoSelection == "No file selected"
NullCV == [name |-> UNDEF]

\* The page after DOMContentLoaded.
PageLoaded ==
  /\ jdFileInput = NoSelection
  /\ jdTextarea = ""
  /\ cvFileInput = NoSelection
  /\ submitBtn = [disabled |-> FALSE]
  /\ inFlight = {}
  /\ successResult = FALSE
  /\ errorResult = FALSE
  /\ candidateNameEl = ""
  /\ alignedCVData = NullCV
  /\ submissions = 0
  /\ afterReset = FALSE

NoFile == [exists |-> FALSE, content |-> <<>>]
File(blocks) == [exists |-> TRUE, content |-> blocks]

Init ==
  /\ data = NoData
  /\ logoExists = FALSE
  /\ pc = "idle"
  /\ gen = "none"
  /\ children = <<>>
  /\ outFile = NoFile
  /\ download = NoFile
  /\ WrapperIdle
  /\ ServerIdle
  /\ TimerSet
  /\ AlignerIdle
  /\ LambdaIdle
  /\ PageLoaded

\* The caller holds a data object d and is about to compose it; the logo
\* asset is present or not.
Request(d, logo) ==
  /\ pc = "idle"
  /\ data' = d
  /\ logoExists' = logo
  /\ pc' = "called"
  /\ UNCHANGED <<gen, children, outFile, download>>
  /\ UNCHANGED exceptComposer

\* generateCV with data.coreCompetencies.reverse().join(...): reverse()
\* reorders the caller's array in place.
GenerateCVReversingInPlace ==
  /\ pc = "called"
  /\ LET r == GenerateCVChildren(data, logoExists) IN
       /\ children' = r.blocks
       /\ pc' = IF r.threw THEN "threw" ELSE "packing"
  /\ gen' = "server"
  /\ data' = [data EXCEPT !.coreCompetencies.items =
                [k \in 1..Len(@) |-> @[Len(@) + 1 - k]]]
  /\ UNCHANGED <<logoExists, outFile, download>>
  /\ UNCHANGED exceptComposer

\* generateCV with children declared at module level: the blocks of a call
\* are pushed after those of the calls before it.
GenerateCVKeepingChildren ==
  /\ pc = "called"
  /\ LET r == GenerateCVChildren(data, logoExists) IN
       /\ children' = children \o r.blocks
       /\ pc' = IF r.threw THEN "threw" ELSE "packing"
  /\ gen' = "server"
  /\ UNCHANGED <<data, logoExists, outFile, download>>
  /\ UNCHANGED exceptComposer

\* generateCV(data, outputPath) up to the call of Packer.toBuffer: the
\* synchronous build of children. A TypeError leaves the function before a
\* promise exists.
GenerateCV ==
  /\ pc = "called"
  /\ LET r == GenerateCVChildren(data, logoExists) IN
       /\ children' = r.blocks
       /\ pc' = IF r.threw THEN "threw" ELSE "packing"
  /\ gen' = "server"
  /\ UNCHANGED <<data, logoExists, outFile, download>>
  /\ UNCHANGED exceptComposer

\* Packer.toBuffer(doc).then(buffer => fs.writeFileSync(outputPath, buffer))
WriteOutput ==
  /\ pc = "packing"
  /\ gen = "server"
  /\ outFile' = File(children)
  /\ pc' = "done"
  /\ UNCHANGED <<data, logoExists, gen, children, download>>
  /\ UNCHANGED exceptComposer

\* generateAndDownloadDocx(cvData) up to the await of Packer.toBlob.
GenerateAndDownloadDocx ==
  /\ pc = "called"
  /\ LET r == ClientChildren(data) IN
       /\ children' = r.blocks
       /\ pc' = IF r.threw THEN "threw" ELSE "packing"
  /\ gen' = "client"
  /\ UNCHANGED <<data, logoExists, outFile, download>>
  /\ UNCHANGED exceptComposer

\* The rest of generateAndDownloadDocx: cvData.name.replace(...) is a
\* TypeError when name is undefined, else the blob is downloaded.
Download ==
  /\ pc = "packing"
  /\ gen = "client"
  /\ IF data.name = UNDEF
     THEN pc' = "threw" /\ UNCHANGED download
     ELSE pc' = "done" /\ download' = File(children)
  /\ UNCHANGED <<data, logoExists, gen, children, outFile>>
  /\ UNCHANGED exceptComposer

\* The call is over; the next one has a fresh output path and data object.
Return ==
  /\ pc \in {"done", "threw"}
  /\ data' = NoData
  /\ logoExists' = FALSE
  /\ pc' = "idle"
  /\ gen' = "none"
  /\ children' = <<>>
  /\ outFile' = NoFile
  /\ download' = NoFile
  /\ UNCHANGED exceptComposer

\* const doc = new Document(...) of the generator that ran.
doc ==
  IF gen = "server" THEN ServerDocument(data, children)
  ELSE ClientDocument(children)

\* A caller with some data object of the input domain starts a composition.
Call == pc = "idle" /\ \E d \in Inputs, logo \in BOOLEAN : Request(d, logo)

Next ==
  \/ Call
  \/ GenerateCV
  \/ WriteOutput
  \/ GenerateAndDownloadDocx
  \/ Download
  \/ Return

Spec == Init /\ [][Next]_vars

\* --------------------------------------------- generateCV called once more
\* The caller that has its document calls generateCV once more with the same
\* data object, the logo asset as it was: module.exports = { generateCV }.
\* The file of the first call is still at its output path.
Again ==
  /\ pc = "done"
  /\ gen = "server"
  /\ pc' = "called"
  /\ gen' = "none"
  /\ UNCHANGED <<data, logoExists, children, outFile, download>>
  /\ UNCHANGED exceptComposer

\* The inputs of the families that vary one field at a time, and one input
\* with every field set.
RepeatInputs ==
  RequiredInputs \cup CompetencyInputs \cup ExperienceInputs
  \cup LeadershipInputs \cup EducationInputs \cup CertificationInputs
  \cup {FullSample("Jane Doe", "Summary")}

RepeatCall ==
  pc = "idle" /\ \E d \in RepeatInputs, logo \in BOOLEAN : Request(d, logo)

RepeatNext ==
  \/ RepeatCall
  \/ GenerateCV
  \/ WriteOutput
  \/ Again
  \/ Return

RepeatSpec == Init /\ [][RepeatNext]_vars


\* ----------------------------------------------- wrapper: lib/generator.js
\* Names are sequences of characters and file names sequences of pieces, so
\* that String.replace can be followed character by character.
Alnum ==
  {"A", "B", "C", "D", "E", "F", "G", "H", "I", "J", "K", "L", "M", "N", "O",
   "P", "Q", "R", "S", "T", "U", "V", "W", "X", "Y", "Z",
   "a", "b", "c", "d", "e", "f", "g", "h", "i", "j", "k", "l", "m", "n", "o",
   "p", "q", "r", "s", "t", "u", "v", "w", "x", "y", "z",
   "0", "1", "2", "3", "4", "5", "6", "7", "8", "9"}

\* candidateName.replace(/[^a-zA-Z0-9]/g, '_')
SafeName(name) ==
  [i \in 1..Len(name) |-> IF name[i] \in Alnum THEN name[i] ELSE "_"]

\* path.join(OUTPUT_DIR, `cv_data_${hash}.json`)
JsonPath(hash) == <<"cv_data_", hash, ".json">>

\* path.join(OUTPUT_DIR, `${safeName}_CV_Aligned_${timestamp}.docx`)
OutputPath(name, timestamp) ==
  SafeName(name) \o <<"_CV_Aligned", "_", ToString(timestamp), ".docx">>

\* a.download = `${cvData.name.replace(/[^a-zA-Z0-9]/g, '_')}_CV_Aligned.docx`
DownloadFileName(name) == SafeName(name) \o <<"_CV_Aligned", ".docx">>

\* The file system calls the wrapper and the script make on OUTPUT_DIR.
ExistsSync(dir, path) == \E f \in dir : f.path = path
ReadFileSync(dir, path) == (CHOOSE f \in dir : f.path = path).content
WriteFileSync(dir, path, content) ==
  {f \in dir : f.path # path}
  \cup {[path |-> path, content |-> content, mtimeMs |-> now]}
\* fs.unlinkSync inside try/catch: a missing file is ignored.
UnlinkSync(dir, path) == {f \in dir : f.path # path}

\* What a file holds: JSON.stringify(cvData), or the packed document of the
\* data the script loaded (cut short when the write failed).
JsonFile(cvData) == [type |-> "json", data |-> cvData, complete |-> TRUE]
DocxFile(cvData, complete) ==
  [type |-> "docx", data |-> cvData, complete |-> complete]
\* JSON.parse of a data file's text
JsonParse(content) == content.data

\* The candidate names, the outcomes of crypto.randomBytes(4).toString('hex')
\* and the data objects the calls are made with. A data object either
\* composes or makes the script's generateCV throw a TypeError (an entry
\* without its achievements array).
CandidateNames ==
  { <<"A", "n", "n", " ", "L", "i">>,
    <<"A", "n", "n", "-", "L", "i">>,
    <<"O", "'", "B", "r", "1">> }
Hashes == {"9f86d081", "1b4f0e98"}
CvData == {"composes", "throws"}
MaxTime == 1

\* What starting the subprocess does: the child runs, the spawn fails and
\* 'error' is emitted on a later tick, or spawn itself throws.
SpawnOutcomes == {"started", "error", "throws"}

\* resolve and reject of the promise: only the first of them has an effect.
Settle(call, state, value) ==
  IF call.promise = "pending"
  THEN [call EXCEPT !.promise = state, !.value = value]
  ELSE call

\* Date.now() advances.
Tick ==
  /\ now < MaxTime
  /\ now' = now + 1
  /\ UNCHANGED <<outputDir, calls, downloadName>>
  /\ UNCHANGED exceptWrapper

\* generateCV(cvData, candidateName) of the wrapper, from its call to the
\* return of the promise: the names are derived, the data file is written
\* and the executor of the promise spawns the script. One turn of the event
\* loop, so nothing else runs in between.
WrapperGenerateCV(c, cvData, candidateName, hash, spawned) ==
  /\ calls[c].promise = "none"
  /\ LET timestamp == now
         jsonPath == JsonPath(hash)
         outputPath == OutputPath(candidateName, timestamp)
         call == [NoCall EXCEPT !.name = candidateName, !.data = cvData,
                                 !.jsonPath = jsonPath,
                                 !.outputPath = outputPath]
     IN
       /\ outputDir' = WriteFileSync(outputDir, jsonPath, JsonFile(cvData))
       /\ calls' = [calls EXCEPT ![c] =
            CASE spawned = "started" ->
                   [call EXCEPT !.promise = "pending", !.child = "started"]
              [] spawned = "error" ->
                   [call EXCEPT !.promise = "pending", !.child = "failed"]
              [] spawned = "throws" ->
                   [call EXCEPT !.promise = "rejected"]]
  /\ UNCHANGED <<now, downloadName>>
  /\ UNCHANGED exceptWrapper

\* The script's command line: JSON.parse(fs.readFileSync(jsonPath)) and the
\* synchronous build of generateCV. A missing data file or a TypeError of
\* the build is an uncaught exception: the process exits with code 1.
ScriptLoad(c) ==
  /\ calls[c].child = "started"
  /\ calls' = [calls EXCEPT ![c] =
       IF ~ExistsSync(outputDir, calls[c].jsonPath)
       THEN [@ EXCEPT !.child = "exited", !.code = 1]
       ELSE LET parsed == JsonParse(ReadFileSync(outputDir, calls[c].jsonPath)) IN
              IF parsed = "throws"
              THEN [@ EXCEPT !.child = "exited", !.code = 1]
              ELSE [@ EXCEPT !.child = "packing", !.loaded = parsed]]
  /\ UNCHANGED <<now, outputDir, downloadName>>
  /\ UNCHANGED exceptWrapper

\* Packer.toBuffer(doc).then(buffer => fs.writeFileSync(outputPath, buffer))
\* and .catch(err => process.exit(1)): the document is written and the
\* process ends with code 0, or the write fails part-way (the file was
\* opened for writing) and the process exits with code 1.
ScriptWrite(c, written) ==
  /\ calls[c].child = "packing"
  /\ outputDir' = WriteFileSync(outputDir, calls[c].outputPath,
                    DocxFile(calls[c].loaded, written))
  /\ calls' = [calls EXCEPT ![c] =
       [@ EXCEPT !.child = "exited", !.code = IF written THEN 0 ELSE 1]]
  /\ UNCHANGED <<now, downloadName>>
  /\ UNCHANGED exceptWrapper

\* child.on('close', code => ...)
OnClose(c) ==
  /\ calls[c].child = "exited"
  /\ outputDir' = UnlinkSync(outputDir, calls[c].jsonPath)
  /\ calls' = [calls EXCEPT ![c] =
       [(IF calls[c].code = 0
         THEN Settle(calls[c], "resolved", calls[c].outputPath)
         ELSE Settle(calls[c], "rejected", <<>>))
        EXCEPT !.child = "closed"]]
  /\ UNCHANGED <<now, downloadName>>
  /\ UNCHANGED exceptWrapper

\* child.on('error', error => ...): the spawn failed; 'close' follows with
\* the negative error code.
OnError(c) ==
  /\ calls[c].child = "failed"
  /\ outputDir' = UnlinkSync(outputDir, calls[c].jsonPath)
  /\ calls' = [calls EXCEPT ![c] =
       [Settle(calls[c], "rejected", <<>>)
        EXCEPT !.child = "exited", !.code = -2]]
  /\ UNCHANGED <<now, downloadName>>
  /\ UNCHANGED exceptWrapper

\* The browser's download of generateAndDownloadDocx takes its file name.
BrowserDownload(name) ==
  /\ downloadName' = DownloadFileName(name)
  /\ UNCHANGED <<now, outputDir, calls>>
  /\ UNCHANGED exceptWrapper

WrapperCall ==
  \E c \in CallIds, cvData \in CvData, candidateName \in CandidateNames,
     hash \in Hashes, spawned \in SpawnOutcomes :
    WrapperGenerateCV(c, cvData, candidateName, hash, spawned)

WrapperInit == Init

WrapperNext ==
  \/ Tick
  \/ WrapperCall
  \/ \E c \in CallIds : ScriptLoad(c)
  \/ \E c \in CallIds, written \in BOOLEAN : ScriptWrite(c, written)
  \/ \E c \in CallIds : OnClose(c)
  \/ \E c \in CallIds : OnError(c)
  \/ \E name \in CandidateNames : BrowserDownload(name)

WrapperSpec == WrapperInit /\ [][WrapperNext]_vars


\* ------------------------------------------- wrapper: cleanupOldFiles
MaxClock == 7

\* if (stats.mtimeMs > oneHourAgo): the comparison the wrong way round.
IsNewerThan(file, oneHourAgo) == file.mtimeMs > oneHourAgo

\* if (stats.mtimeMs < oneHourAgo)
IsOlderThan(file, oneHourAgo) == file.mtimeMs < oneHourAgo

\* fs.statSync(filePath) of every file of fs.readdirSync(OUTPUT_DIR)
StatsOf(dir) == {[path |-> f.path, mtimeMs |-> f.mtimeMs] : f \in dir}

\* The number of passes that saw a file and left it.
PassesOver(st) ==
  IF \E s \in survivors : s.file = st
  THEN (CHOOSE s \in survivors : s.file = st).passes
  ELSE 0

\* Date.now() advances, in the server that runs the timer: a pass that is
\* due runs within the tick it is due in.
Elapse ==
  /\ now < MaxClock
  /\ now < timer
  /\ now' = now + 1
  /\ UNCHANGED <<outputDir, calls, downloadName, cleanupVars>>
  /\ UNCHANGED exceptCleanup

\* cleanupOldFiles(), called by the interval timer when it is due; the timer
\* is then due one hour after this call.
CleanupOldFiles ==
  /\ now >= timer
  /\ LET oneHourAgo == now - OneHour
         removed == {f \in outputDir : IsOlderThan(f, oneHourAgo)}
     IN
       /\ outputDir' = outputDir \ removed
       /\ lastPass' = [time |-> now, stats |-> StatsOf(outputDir),
                       removed |-> StatsOf(removed)]
       /\ survivors' =
            {[file |-> st, passes |-> PassesOver(st) + 1] :
               st \in StatsOf(outputDir \ removed)}
  /\ timer' = now + OneHour
  /\ UNCHANGED <<now, calls, downloadName>>
  /\ UNCHANGED exceptCleanup

\* A request of the server has its document generated.
GenerateDocument ==
  \E c \in CallIds :
    WrapperGenerateCV(c, "composes", <<"A", "n", "n", " ", "L", "i">>,
                      IF c = 1 THEN "9f86d081" ELSE "1b4f0e98", "started")

CleanupNext ==
  \/ Elapse
  \/ CleanupOldFiles
  \/ GenerateDocument
  \/ \E c \in CallIds : ScriptLoad(c)
  \/ \E c \in CallIds : ScriptWrite(c, TRUE)
  \/ \E c \in CallIds : OnClose(c)

CleanupSpec == Init /\ [][CleanupNext]_vars


\* ------------------------------------------------------------- alignCV
\* A text is a sequence of pieces: blanks, code fences and one-piece JSON
\* texts or prose.
\* The fence is three backquotes.
FENCE == "<FENCE>"
FENCE_JSON == "<FENCE>json"
BLANK == " "

\* The pieces that are JSON texts, and JSON.parse of each.
JsonTexts ==
  {"null", "{}", "{name}", "{summary}", "{name:<EMPTY>,summary}",
   "{name,summary:<EMPTY>}", "{name,summary}"}
JsonValue(piece) ==
  CASE piece = "null" -> JsonNull
    [] piece = "{}" -> JsonObject(UNDEF, UNDEF)
    [] piece = "{name}" -> JsonObject("Jane Doe", UNDEF)
    [] piece = "{summary}" -> JsonObject(UNDEF, "Summary")
    [] piece = "{name:<EMPTY>,summary}" -> JsonObject("", "Summary")
    [] piece = "{name,summary:<EMPTY>}" -> JsonObject("Jane Doe", "")
    [] piece = "{name,summary}" -> JsonObject("Jane Doe", "Summary")

\* String.prototype.trim: the blanks at both ends go.
RECURSIVE TrimStart(_)
TrimStart(text) ==
  IF text # <<>> /\ Head(text) = BLANK THEN TrimStart(Tail(text)) ELSE text
RECURSIVE TrimEnd(_)
TrimEnd(text) ==
  IF text # <<>> /\ text[Len(text)] = BLANK
  THEN TrimEnd(SubSeq(text, 1, Len(text) - 1)) ELSE text
TrimText(text) == TrimEnd(TrimStart(text))

\* startsWith and endsWith of the fences: a text that
\* starts with the json fence also starts with the plain one.
StartsWithJsonFence(text) == text # <<>> /\ Head(text) = FENCE_JSON
StartsWithFence(text) == text # <<>> /\ Head(text) \in {FENCE, FENCE_JSON}
EndsWithFence(text) == text # <<>> /\ text[Len(text)] = FENCE

\* The removal of markdown code blocks, between the two trims. slice(3) of a
\* text starting with the json fence would leave the word json.
StripFences(text) ==
  LET trimmed == TrimText(text)
      opened == IF StartsWithJsonFence(trimmed) THEN Tail(trimmed)
                ELSE IF StartsWithFence(trimmed) THEN Tail(trimmed)
                ELSE trimmed
      closed == IF EndsWithFence(opened)
                THEN SubSeq(opened, 1, Len(opened) - 1)
                ELSE opened
  IN TrimText(closed)

\* JSON.parse(jsonText): a value, or a SyntaxError.
JsonParses(text) == Len(text) = 1 /\ text[1] \in JsonTexts

\* if (!cvData.name && !cvData.professionalSummary): && where || stands.
BothRequiredFieldsMissing(cvData) ==
  ~TruthyStr(cvData.name) /\ ~TruthyStr(cvData.professionalSummary)

\* if (!cvData.name || !cvData.professionalSummary)
RequiredFieldMissing(cvData) ==
  ~TruthyStr(cvData.name) \/ ~TruthyStr(cvData.professionalSummary)

\* response.content?.find(block => block.type === 'text')
FindText(content) ==
  LET found == {k \in 1..Len(content) : content[k].type = "text"}
  IN IF found = {} THEN 0 ELSE CHOOSE k \in found : \A j \in found : k <= j

\* The body of alignCV after the await of callClaudeAPI. Reading .name of
\* null is a TypeError; lib/aligner.js catches it and the SyntaxError and
\* throws anew, api/align.js lets them pass: alignCV throws either way.
AlignCVOutcome(resp) ==
  LET k == FindText(resp.content) IN
    IF k = 0 THEN [state |-> "threw", data |-> JsonNull]
    ELSE LET jsonText == StripFences(resp.content[k].text) IN
      IF ~JsonParses(jsonText) THEN [state |-> "threw", data |-> JsonNull]
      ELSE LET cvData == JsonValue(jsonText[1]) IN
        IF ~cvData.object THEN [state |-> "threw", data |-> JsonNull]
        ELSE IF RequiredFieldMissing(cvData)
        THEN [state |-> "threw", data |-> JsonNull]
        ELSE [state |-> "returned", data |-> cvData]

\* The responses of the model: no text block, or one text block (after a
\* block of another type or not) of pieces around one JSON text or prose.
TextBlock(text) == [type |-> "text", text |-> text]
OtherBlock == [type |-> "tool_use", text |-> <<>>]
Leads == {<<>>, <<BLANK>>, <<FENCE_JSON>>, <<FENCE>>, <<BLANK, FENCE_JSON, BLANK>>}
Trails == {<<>>, <<BLANK>>, <<FENCE>>, <<BLANK, FENCE, BLANK>>}
ResponseTexts ==
  {lead \o <<body>> \o trail :
     lead \in Leads, body \in JsonTexts \cup {"Here is the CV"},
     trail \in Trails}
  \cup {<<>>, <<FENCE>>, <<"Here is the CV", "{name,summary}">>}
ClaudeResponses ==
  {[content |-> <<>>], [content |-> <<OtherBlock>>]}
  \cup {[content |-> <<TextBlock(t)>>] : t \in ResponseTexts}
  \cup {[content |-> <<OtherBlock, TextBlock(t)>>] : t \in ResponseTexts}

\* alignCV is called and callClaudeAPI resolves with a response.
CallAlignCV(which, resp) ==
  /\ aligner = "none"
  /\ aligner' = which
  /\ response' = resp
  /\ alignment' = [state |-> "pending", data |-> JsonNull]
  /\ UNCHANGED generated
  /\ UNCHANGED exceptAlign

\* alignCV goes on after the await and returns or throws.
AlignCV ==
  /\ alignment.state = "pending"
  /\ alignment' = AlignCVOutcome(response)
  /\ UNCHANGED <<aligner, response, generated>>
  /\ UNCHANGED exceptAlign

\* The caller got its data: the Express handler calls generateCV(alignedData,
\* alignedData.name); the page that got alignedCV from the serverless
\* handler calls generateAndDownloadDocx(alignedCVData).
InvokeGenerator ==
  /\ alignment.state = "returned"
  /\ generated = NoAlignment
  /\ generated' = alignment
  /\ UNCHANGED <<aligner, response, alignment>>
  /\ UNCHANGED exceptAlign

\* The request is over.
AlignDone ==
  /\ \/ alignment.state = "threw"
     \/ alignment.state = "returned" /\ generated # NoAlignment
  /\ aligner' = "none"
  /\ response' = NoClaudeResponse
  /\ alignment' = NoAlignment
  /\ generated' = NoAlignment
  /\ UNCHANGED exceptAlign

AlignRequest ==
  /\ aligner = "none"
  /\ \E which \in {"lib", "api"}, resp \in ClaudeResponses :
       CallAlignCV(which, resp)

AlignNext ==
  \/ AlignRequest
  \/ AlignCV
  \/ InvokeGenerator
  \/ AlignDone

AlignSpec == Init /\ [][AlignNext]_vars


\* ------------------------------------------------ server: POST /api/align
MaxRequests == 2

\* What an uploaded file is to extractText: a file whose text is blank, a
\* file with text, a file the PDF and DOCX parsers throw on, or an image.
FileKinds == {"blank", "text", "corrupt"}
BodyTexts == {UNDEF, "", "   ", "Job text"}

\* The files a form can carry, by kind and by the extension of their name.
Attachments ==
  {[kind |-> kind, ext |-> ext] : kind \in FileKinds, ext \in {".pdf", ".TXT"}}
  \cup {[kind |-> "image", ext |-> ".png"]}

\* path.extname(...).toLowerCase() on the extensions of the model
ToLowerCase(ext) == IF ext = ".TXT" THEN ".txt" ELSE ext

\* fileFilter: allowedTypes.includes(ext)
AllowedTypes == {".pdf", ".docx", ".txt"}
FileFilter(file) == ToLowerCase(file.ext) \in AllowedTypes

\* The path multer's diskStorage gives the file of a field: unique to the
\* request, in UPLOADS_DIR, ending with the original name.
StoredPath(request, field, file) ==
  [request |-> request, field |-> field, kind |-> file.kind, ext |-> file.ext]

\* req.files[field] && req.files[field][0]
HasFile(files, field) == files[field] # NoUpload

\* String.prototype.trim on the texts of the model
Trim(text) == IF text \in {"", "   "} THEN "" ELSE text

\* extractText(filePath) of lib/extractor.js throws: the default case of the
\* switch, or the parser of a PDF or DOCX file rejects.
ExtractTextThrows(path) ==
  \/ ToLowerCase(path.ext) \notin {".pdf", ".docx", ".txt"}
  \/ path.kind = "corrupt" /\ ToLowerCase(path.ext) # ".txt"

\* The text extractText resolves with: each extractor trims it.
ExtractedText(path) ==
  CASE path.kind = "blank" -> ""
    [] path.kind = "text" -> "Text of file"
    [] OTHER -> "Unreadable text"

Respond(status, error) == [status |-> status, error |-> error]

\* if (!cvText.trim()) left out
CvTextNeverMissing(cvText) == FALSE

\* if (!cvText.trim())
CvTextMissing(cvText) == Trim(cvText) = ""

\* A request arrives: upload.fields(...) passes each file to fileFilter and
\* stores the files of both fields in UPLOADS_DIR before the handler is
\* called; when fileFilter refuses a file, multer removes what it stored and
\* passes the error on. req.files is given its paths in both cases here.
Receive(apiKey, text, jd, cv, aligns, generates) ==
  /\ handler = "idle"
  /\ served < MaxRequests
  /\ served' = served + 1
  /\ LET jdPath == IF jd = NoAttachment THEN NoUpload
                   ELSE StoredPath(served', "jobDescription", jd)
         cvPath == IF cv = NoAttachment THEN NoUpload
                   ELSE StoredPath(served', "cv", cv)
         stored == {jdPath, cvPath} \ {NoUpload}
     IN
       /\ req' = [apiKey |-> apiKey, jobDescriptionText |-> text,
                  files |-> [jobDescription |-> jdPath, cv |-> cvPath],
                  aligns |-> aligns, generates |-> generates]
       /\ IF \A f \in stored : FileFilter(f)
          THEN uploads' = uploads \cup stored /\ handler' = "called"
          ELSE UNCHANGED uploads /\ handler' = "refused"
  /\ uploadedFiles' = <<>>
  /\ jobDescriptionText' = UNDEF
  /\ res' = NoResponse
  /\ jdFrom' = "none"
  /\ sent' = 0
  /\ claudeCalls' = <<>>
  /\ UNCHANGED exceptServer

\* app.use((error, req, res, next) => ...): the error of fileFilter is
\* answered with status 400; the handler of the route is not called.
UploadError ==
  /\ handler = "refused"
  /\ res' = Respond(400, "Error")
  /\ sent' = sent + 1
  /\ handler' = "finished"
  /\ UNCHANGED <<uploads, req, uploadedFiles, jobDescriptionText, served,
                 jdFrom, claudeCalls>>
  /\ UNCHANGED exceptServer

\* The handler from its first line to its first await: the API key check,
\* the body's text, and the job description file when there is one.
CheckApiKey ==
  /\ handler = "called"
  /\ IF ~req.apiKey
     THEN /\ res' = Respond(500, "Server configuration error")
          /\ sent' = sent + 1
          /\ handler' = "finally"
          /\ UNCHANGED <<uploadedFiles, jobDescriptionText, jdFrom>>
     ELSE /\ jobDescriptionText' =
               (IF req.jobDescriptionText \in {UNDEF, ""}
                THEN "" ELSE req.jobDescriptionText)
          /\ jdFrom' = "text"
          /\ IF HasFile(req.files, "jobDescription")
             THEN /\ uploadedFiles' =
                       Append(uploadedFiles, req.files.jobDescription)
                  /\ handler' = "extractJobDescription"
             ELSE /\ handler' = "checkInputs"
                  /\ UNCHANGED uploadedFiles
          /\ UNCHANGED <<res, sent>>
  /\ UNCHANGED <<uploads, req, served, claudeCalls>>
  /\ UNCHANGED exceptServer

\* jobDescriptionText = await extractText(jdFile.path)
ExtractJobDescription ==
  /\ handler = "extractJobDescription"
  /\ IF ExtractTextThrows(req.files.jobDescription)
     THEN /\ res' = Respond(500, "Processing failed")
          /\ sent' = sent + 1
          /\ handler' = "finally"
          /\ UNCHANGED <<jobDescriptionText, jdFrom>>
     ELSE /\ jobDescriptionText' = ExtractedText(req.files.jobDescription)
          /\ jdFrom' = "file"
          /\ handler' = "checkInputs"
          /\ UNCHANGED <<res, sent>>
  /\ UNCHANGED <<uploads, req, uploadedFiles, served, claudeCalls>>
  /\ UNCHANGED exceptServer

\* The checks of the job description and of the CV file, up to the await
\* of extractText(cvFile.path).
CheckInputs ==
  /\ handler = "checkInputs"
  /\ IF Trim(jobDescriptionText) = ""
     THEN /\ res' = Respond(400, "Missing job description")
          /\ sent' = sent + 1
          /\ handler' = "finally"
          /\ UNCHANGED uploadedFiles
     ELSE IF ~HasFile(req.files, "cv")
     THEN /\ res' = Respond(400, "Missing CV")
          /\ sent' = sent + 1
          /\ handler' = "finally"
          /\ UNCHANGED uploadedFiles
     ELSE /\ uploadedFiles' = Append(uploadedFiles, req.files.cv)
          /\ handler' = "extractCV"
          /\ UNCHANGED <<res, sent>>
  /\ UNCHANGED <<uploads, req, jobDescriptionText, served, jdFrom,
                 claudeCalls>>
  /\ UNCHANGED exceptServer

\* const cvText = await extractText(cvFile.path), the check of cvText and
\* the call of alignCV(jobDescriptionText, cvText), which sends the request
\* to the Claude API.
ExtractCV ==
  /\ handler = "extractCV"
  /\ IF ExtractTextThrows(req.files.cv)
     THEN /\ res' = Respond(500, "Processing failed")
          /\ sent' = sent + 1
          /\ handler' = "finally"
          /\ UNCHANGED claudeCalls
     ELSE LET cvText == ExtractedText(req.files.cv) IN
       IF CvTextMissing(cvText)
       THEN /\ res' = Respond(400, "Empty CV")
            /\ sent' = sent + 1
            /\ handler' = "finally"
            /\ UNCHANGED claudeCalls
       ELSE /\ handler' = "align"
            /\ claudeCalls' =
                 Append(claudeCalls,
                        [jobDescriptionText |-> jobDescriptionText,
                         cvText |-> cvText])
            /\ UNCHANGED <<res, sent>>
  /\ UNCHANGED <<uploads, req, uploadedFiles, jobDescriptionText, served,
                 jdFrom>>
  /\ UNCHANGED exceptServer

\* await alignCV(...) and await generateCV(alignedData, alignedData.name):
\* either rejects into the catch block, else the success response is sent.
AlignAndGenerate ==
  /\ handler = "align"
  /\ res' = IF req.aligns /\ req.generates
            THEN Respond(200, "none")
            ELSE Respond(500, "Processing failed")
  /\ sent' = sent + 1
  /\ handler' = "finally"
  /\ UNCHANGED <<uploads, req, uploadedFiles, jobDescriptionText, served,
                 jdFrom, claudeCalls>>
  /\ UNCHANGED exceptServer

\* finally: for (const filePath of uploadedFiles) fs.unlinkSync(filePath)
Finally ==
  /\ handler = "finally"
  /\ uploads' = uploads \ {uploadedFiles[i] : i \in 1..Len(uploadedFiles)}
  /\ handler' = "finished"
  /\ UNCHANGED <<req, uploadedFiles, jobDescriptionText, res, served,
                 jdFrom, sent, claudeCalls>>
  /\ UNCHANGED exceptServer

\* The handler's promise is done with; the server waits for a request.
Finished ==
  /\ handler = "finished"
  /\ handler' = "idle"
  /\ req' = NoRequest
  /\ uploadedFiles' = <<>>
  /\ jobDescriptionText' = UNDEF
  /\ res' = NoResponse
  /\ jdFrom' = "none"
  /\ sent' = 0
  /\ claudeCalls' = <<>>
  /\ UNCHANGED <<uploads, served>>
  /\ UNCHANGED exceptServer

Post ==
  /\ handler = "idle"
  /\ \E apiKey \in BOOLEAN, text \in BodyTexts,
        jd \in Attachments \cup {NoAttachment},
        cv \in Attachments \cup {NoAttachment},
        aligns \in BOOLEAN, generates \in BOOLEAN :
       Receive(apiKey, text, jd, cv, aligns, generates)

ServerInit == Init

ServerNext ==
  \/ Post
  \/ UploadError
  \/ CheckApiKey
  \/ ExtractJobDescription
  \/ CheckInputs
  \/ ExtractCV
  \/ AlignAndGenerate
  \/ Finally
  \/ Finished

ServerSpec == ServerInit /\ [][ServerNext]_vars


\* ------------------------------------- serverless: POST /api/align
\* The content of a part that carries a file.
Content(file) ==
  CASE file.kind = "blank" -> "   "
    [] file.kind = "text" -> "Text of file"
    [] file.kind = "image" -> "Image bytes"
    [] OTHER -> "Unreadable text"

\* extractText(content, filename) of api/align.js: the content of a .txt
\* file, what the patterns find in a .docx or .pdf file (nothing in a file
\* without text), and the content as it is for any other name.
ApiExtractText(file) ==
  LET ext == ToLowerCase(file.ext) IN
    IF ext = ".txt" THEN Content(file)
    ELSE IF ext \in {".docx", ".pdf"}
    THEN (IF file.kind = "text" THEN "Text of file" ELSE "")
    ELSE Content(file)

\* parts[name]?.content && parts[name]?.filename
HasPart(file) == file # NoAttachment /\ Content(file) # ""

\* The request reaches the function.
ApiReceive(method, apiKey, boundary, text, jd, cv, aligns) ==
  /\ lambda = "idle"
  /\ event' = [method |-> method, apiKey |-> apiKey, boundary |-> boundary,
               jobDescriptionText |-> text, jobDescription |-> jd,
               cv |-> cv, aligns |-> aligns]
  /\ lambda' = "called"
  /\ lambdaJobDescription' = NoJobDescription
  /\ lambdaRes' = NoResponse
  /\ lambdaSent' = 0
  /\ lambdaCalls' = <<>>
  /\ UNCHANGED exceptLambda

\* handler(req, res) from its first line to the await of alignCV's request
\* to the Claude API: the body is a string, so nothing is awaited before.
ApiHandler ==
  /\ lambda = "called"
  /\ LET jd == IF TruthyStr(event.jobDescriptionText)
               THEN [from |-> "text", text |-> event.jobDescriptionText]
               ELSE IF HasPart(event.jobDescription)
               THEN [from |-> "file",
                     text |-> ApiExtractText(event.jobDescription)]
               ELSE NoJobDescription
         answer(status, error) ==
           /\ lambdaRes' = Respond(status, error)
           /\ lambdaSent' = lambdaSent + 1
           /\ lambda' = "finished"
           /\ UNCHANGED lambdaCalls
     IN
       IF event.method = "OPTIONS"
       THEN answer(200, "preflight") /\ UNCHANGED lambdaJobDescription
       ELSE IF event.method # "POST"
       THEN answer(405, "Method not allowed")
            /\ UNCHANGED lambdaJobDescription
       ELSE IF ~event.apiKey
       THEN answer(500, "Server configuration error")
            /\ UNCHANGED lambdaJobDescription
       ELSE IF ~event.boundary
       THEN answer(400, "Invalid content type")
            /\ UNCHANGED lambdaJobDescription
       ELSE /\ lambdaJobDescription' = jd
            /\ IF Trim(jd.text) = ""
               THEN answer(400, "Missing job description")
               ELSE IF ~HasPart(event.cv)
               THEN answer(400, "Missing CV")
               ELSE LET cvText == ApiExtractText(event.cv) IN
                 IF Trim(cvText) = ""
                 THEN answer(400, "Empty CV")
                 ELSE /\ lambdaCalls' =
                           Append(lambdaCalls,
                                  [jobDescriptionText |-> jd.text,
                                   cvText |-> cvText])
                      /\ lambda' = "align"
                      /\ UNCHANGED <<lambdaRes, lambdaSent>>
  /\ UNCHANGED event
  /\ UNCHANGED exceptLambda

\* alignCV resolves and the aligned JSON is returned, or it rejects into
\* the catch block.
ApiAlign ==
  /\ lambda = "align"
  /\ lambdaRes' = IF event.aligns THEN Respond(200, "none")
                  ELSE Respond(500, "Processing failed")
  /\ lambdaSent' = lambdaSent + 1
  /\ lambda' = "finished"
  /\ UNCHANGED <<event, lambdaJobDescription, lambdaCalls>>
  /\ UNCHANGED exceptLambda

\* The invocation is over.
ApiReturn ==
  /\ lambda = "finished"
  /\ event' = NoEvent
  /\ lambda' = "idle"
  /\ lambdaJobDescription' = NoJobDescription
  /\ lambdaRes' = NoResponse
  /\ lambdaSent' = 0
  /\ lambdaCalls' = <<>>
  /\ UNCHANGED exceptLambda

\* ------------------------------ the two deployments of POST /api/align
Methods == {"POST", "GET", "OPTIONS"}

\* The file of the form that req.files names.
AttachmentOf(path) == [kind |-> path.kind, ext |-> path.ext]

\* The first request to the Express server.
FirstPost == served = 0 /\ Post

\* The form the Express server has answered is sent to the serverless
\* function as well, by some method, with or without a multipart boundary.
SameForm ==
  /\ handler = "finished"
  /\ lambda = "idle"
  /\ \E method \in Methods, boundary \in BOOLEAN :
       ApiReceive(method, req.apiKey, boundary, req.jobDescriptionText,
                  AttachmentOf(req.files.jobDescription),
                  AttachmentOf(req.files.cv), req.aligns)

HandlersNext ==
  \/ FirstPost
  \/ UploadError
  \/ CheckApiKey
  \/ ExtractJobDescription
  \/ CheckInputs
  \/ ExtractCV
  \/ AlignAndGenerate
  \/ Finally
  \/ Finished
  \/ SameForm
  \/ ApiHandler
  \/ ApiAlign
  \/ ApiReturn

HandlersSpec == Init /\ [][HandlersNext]_vars


\* ------------------------------------------------ frontend: the page
MaxSubmits == 2

\* What the user can select and type, and the aligned CVs a success
\* response can carry.
JdFiles == {"jd.pdf"}
CvFiles == {"cv.pdf"}
TextareaValues == {"", "   ", "Job text"}
AlignedCVs == {[name |-> "Jane Doe"], [name |-> "Ann Li"]}

\* How the request of a submission ends: fetch rejects, response.json()
\* rejects, the response is an error, or it is the success response.
Outcomes == {"network", "parse", "error", "success"}

\* submitBtn.disabled = isLoading, with the assignment left out
SetLoadingIgnored(isLoading) == [disabled |-> FALSE]

\* setLoading(isLoading)
SetLoading(isLoading) == [disabled |-> isLoading]

\* jdFileInput 'change' without jdTextarea.value = ''
JdFileChangeKeepingText(file) ==
  /\ jdFileInput' = file
  /\ UNCHANGED <<jdTextarea, cvFileInput, submitBtn, inFlight, successResult,
                 errorResult, candidateNameEl, alignedCVData, submissions,
                 afterReset>>
  /\ UNCHANGED exceptPage

\* jdFileInput 'change': the user selected a file, or emptied the selection.
JdFileChange(file) ==
  /\ jdFileInput' = file
  /\ jdTextarea' = IF file # NoSelection THEN "" ELSE jdTextarea
  /\ UNCHANGED <<cvFileInput, submitBtn, inFlight, successResult,
                 errorResult, candidateNameEl, alignedCVData, submissions,
                 afterReset>>
  /\ UNCHANGED exceptPage

\* cvFileInput 'change'
CvFileChange(file) ==
  /\ cvFileInput' = file
  /\ UNCHANGED <<jdFileInput, jdTextarea, submitBtn, inFlight, successResult,
                 errorResult, candidateNameEl, alignedCVData, submissions,
                 afterReset>>
  /\ UNCHANGED exceptPage

\* jdTextarea 'input': the user's edit made the value what it is now.
JdTextInput(value) ==
  /\ jdTextarea' = value
  /\ jdFileInput' = IF Trim(value) # "" THEN NoSelection ELSE jdFileInput
  /\ UNCHANGED <<cvFileInput, submitBtn, inFlight, successResult,
                 errorResult, candidateNameEl, alignedCVData, submissions,
                 afterReset>>
  /\ UNCHANGED exceptPage

\* form 'submit', from the click of the submit button to the await of
\* fetch: the validation, setLoading(true), hideResults() and the FormData.
\* A disabled button does not submit its form.
Submit ==
  /\ ~submitBtn.disabled
  /\ submissions < MaxSubmits
  /\ afterReset' = FALSE
  /\ LET hasJdFile == jdFileInput # NoSelection
         hasJdText == Trim(jdTextarea) # ""
         hasCvFile == cvFileInput # NoSelection
     IN
       IF (~hasJdFile /\ ~hasJdText) \/ ~hasCvFile
       THEN /\ successResult' = FALSE
            /\ errorResult' = TRUE
            /\ UNCHANGED <<submitBtn, inFlight, submissions>>
       ELSE /\ submitBtn' = SetLoading(TRUE)
            /\ successResult' = FALSE
            /\ errorResult' = FALSE
            /\ submissions' = submissions + 1
            /\ inFlight' = inFlight \cup
                 {[id |-> submissions',
                   jobDescription |->
                     IF hasJdFile THEN jdFileInput ELSE NoSelection,
                   jobDescriptionText |->
                     IF hasJdFile THEN UNDEF ELSE jdTextarea,
                   cv |-> cvFileInput]}
  /\ UNCHANGED <<jdFileInput, jdTextarea, cvFileInput, candidateNameEl,
                 alignedCVData>>
  /\ UNCHANGED exceptPage

\* The rest of the submit handler, once fetch and response.json() settled:
\* showSuccess or showError, then setLoading(false) in the finally block.
Settles(request, outcome, alignedCV) ==
  /\ request \in inFlight
  /\ inFlight' = inFlight \ {request}
  /\ IF outcome = "success"
     THEN /\ alignedCVData' = alignedCV
          /\ successResult' = TRUE
          /\ errorResult' = FALSE
          /\ candidateNameEl' = alignedCV.name
     ELSE /\ successResult' = FALSE
          /\ errorResult' = TRUE
          /\ UNCHANGED <<alignedCVData, candidateNameEl>>
  /\ submitBtn' = SetLoading(FALSE)
  /\ UNCHANGED <<jdFileInput, jdTextarea, cvFileInput, submissions,
                 afterReset>>
  /\ UNCHANGED exceptPage

\* window.resetForm(): form.reset(), alignedCVData = null, hideResults()
ResetForm ==
  /\ jdFileInput' = NoSelection
  /\ jdTextarea' = ""
  /\ cvFileInput' = NoSelection
  /\ alignedCVData' = NullCV
  /\ successResult' = FALSE
  /\ errorResult' = FALSE
  /\ afterReset' = TRUE
  /\ UNCHANGED <<submitBtn, inFlight, candidateNameEl, submissions>>
  /\ UNCHANGED exceptPage

SelectJdFile == \E file \in JdFiles \cup {NoSelection} : JdFileChange(file)
SelectCvFile == \E file \in CvFiles \cup {NoSelection} : CvFileChange(file)
TypeJobDescription == \E value \in TextareaValues : JdTextInput(value)
ResponseArrives ==
  \E request \in inFlight, outcome \in Outcomes, alignedCV \in AlignedCVs :
    Settles(request, outcome, alignedCV)

PageNext ==
  \/ SelectJdFile
  \/ SelectCvFile
  \/ TypeJobDescription
  \/ Submit
  \/ ResponseArrives
  \/ ResetForm

PageSpec == Init /\ [][PageNext]_vars


\* ------------------------------------------------------ claims: vocabulary
\* The generator has finished building children.
Built == pc \in {"packing", "done"}
ServerBuilt == gen = "server" /\ Built

RequiredSet(d) == TruthyStr(d.name) /\ TruthyStr(d.professionalSummary)
NonEmpty(a) == a.defined /\ Len(a.items) > 0
ItemsOf(a) == IF a.defined THEN a.items ELSE <<>>
Kinds(s) == [i \in 1..Len(s) |-> s[i].kind]
HeadingAt(s, i) == i \in 1..Len(s) /\ s[i].kind = "heading"
HeadingPositions(s, text) ==
  {i \in 1..Len(s) : s[i].kind = "heading" /\ s[i].text = text}
EducationKinds == {"degree", "institution", "eduDetails", "cert"}

\* C1: when name or professionalSummary is missing or empty, generateCV
\* fails before any block is built and nothing is written at the output
\* path.
C1_MissingRequiredFieldRejected ==
  (gen = "server" /\ ~RequiredSet(data))
    => (pc = "threw" /\ children = <<>> /\ ~outFile.exists)

\* C2: with name and professionalSummary non-empty, generateCV succeeds
\* whatever optional fields are absent or empty: it never throws, and the
\* document it writes is the block list it built.
C2_OptionalFieldsNeverFail ==
  (gen = "server" /\ RequiredSet(data))
    => /\ pc \in {"packing", "done"}
       /\ pc = "done" => outFile = File(children)

\* C2 witness: a finished server composition of an input that lacks
\* education, has an empty certifications list, a job without achievements
\* and a technicalSkills object without languages.
C2_Witness ==
  /\ gen = "server" /\ pc = "done" /\ outFile.exists
  /\ RequiredSet(data)
  /\ ~data.education.defined
  /\ data.certifications = Arr(<<>>)
  /\ NonEmpty(data.professionalExperience)
  /\ ~data.professionalExperience.items[1].achievements.defined
  /\ data.technicalSkills.defined
  /\ data.technicalSkills.languages = UNDEF

\* C3: with only name and professionalSummary set, the block list is the
\* name block, the PROFESSIONAL SUMMARY heading and the summary paragraph,
\* preceded by the logo block when the server finds the asset; no other
\* heading is present.
C3_MinimalDocument ==
  (Built /\ RequiredSet(data)
     /\ data = Minimal(data.name, data.professionalSummary))
    => LET body == IF gen = "server" /\ logoExists
                   THEN Tail(children) ELSE children
       IN /\ Kinds(children) =
               (IF gen = "server" /\ logoExists THEN <<"logo">> ELSE <<>>)
               \o <<"name", "heading", "paragraph">>
          /\ body[1].text = data.name
          /\ body[2].text = "PROFESSIONAL SUMMARY"
          /\ body[3].text = data.professionalSummary

\* C3 witness: the server, with the logo asset present, has written the
\* four-block document of a minimal input.
C3_Witness ==
  /\ pc = "done" /\ gen = "server" /\ logoExists
  /\ data = Minimal("Jane Doe", "Summary")
  /\ Len(children) = 4

\* C4: in both generators the heading EDUCATION & CERTIFICATION is emitted
\* if and only if education or certifications is a non-empty sequence, and
\* every education and certification block comes after it.
C4_EducationHeadingIff ==
  Built =>
    LET hs == HeadingPositions(children, "EDUCATION & CERTIFICATION") IN
    /\ (hs # {}) <=> (NonEmpty(data.education) \/ NonEmpty(data.certifications))
    /\ \A i \in 1..Len(children) :
         children[i].kind \in EducationKinds
           => \E h \in hs : h < i

\* C5: no section heading is empty: every heading is directly followed by a
\* body block of its own section, and a section whose backing field is
\* absent, empty or (technicalSkills) has neither technical nor languages
\* set emits nothing.
C5_NoEmptySection ==
  ServerBuilt =>
    /\ \A i \in 1..Len(children) :
         children[i].kind = "heading"
           => /\ i < Len(children)
              /\ children[i + 1].kind # "heading"
              /\ children[i + 1].section = children[i].section
    /\ ~(TruthyStr(data.technicalSkills.technical)
         \/ TruthyStr(data.technicalSkills.languages))
         => \A i \in 1..Len(children) : children[i].section # SEC_TECHNICAL


\* C6 vocabulary: the place of a section in the fixed emission order.
SectionRank(sec) ==
  CASE sec = SEC_LOGO -> 1
    [] sec = SEC_NAME -> 2
    [] sec = SEC_SUMMARY -> 3
    [] sec = SEC_COMPETENCIES -> 4
    [] sec = SEC_EXPERIENCE -> 5
    [] sec = SEC_EDUCATION -> 6
    [] sec = SEC_LEADERSHIP -> 7
    [] sec = SEC_TECHNICAL -> 8
    [] OTHER -> 0

SectionsIn(s) == {s[i].section : i \in 1..Len(s)}

\* C6: the blocks appear in the order Logo, Name, Professional Summary, Core
\* Competencies, Professional Experience, Education & Certification,
\* Leadership, Technical Skills & Languages, whatever the input: no block of
\* a later section precedes a block of an earlier one, and no section is
\* opened twice.
C6_FixedSectionOrder ==
  Built =>
    /\ \A i \in 1..Len(children) : SectionRank(children[i].section) # 0
    /\ \A i \in 1..(Len(children) - 1) :
         SectionRank(children[i].section)
           <= SectionRank(children[i + 1].section)
    /\ \A sec \in SectionsIn(children) :
         Cardinality({i \in 1..Len(children) :
                        /\ children[i].section = sec
                        /\ children[i].kind \in {"heading", "logo", "name"}})
           <= 1

\* C6 witness: the server has written a document holding all eight sections.
C6_Witness ==
  /\ pc = "done" /\ gen = "server"
  /\ Cardinality(SectionsIn(outFile.content)) = 8

\* C7: a non-empty coreCompetencies is rendered by both generators as one
\* paragraph, the items in input order joined by two spaces, the bullet
\* glyph and two spaces; <<"B", "A", "C">> renders as "B  *  A  *  C" with
\* the glyph for *.
C7_CompetenciesJoined ==
  (Built /\ NonEmpty(data.coreCompetencies)) =>
    LET ps == {i \in 1..Len(children) :
                 /\ children[i].section = SEC_COMPETENCIES
                 /\ children[i].kind # "heading"}
    IN /\ Cardinality(ps) = 1
       /\ \A i \in ps :
            /\ children[i].text =
                 Join(data.coreCompetencies.items, "  <U+2022>  ")
            /\ data.coreCompetencies.items = <<"B", "A", "C">>
                 => children[i].text = "B  <U+2022>  A  <U+2022>  C"

\* C8 and C9 vocabulary.
KindCountUpTo(s, kind, q) == Cardinality({i \in 1..q : s[i].kind = kind})
TextsOfKind(s, kind) ==
  LET sel == SelectSeq(s, LAMBDA b : b.kind = kind)
  IN [k \in 1..Len(sel) |-> sel[k].text]

\* The nearest block before position p that is no bullet (0 when none).
PrevNonBullet(s, p) ==
  LET cands == {q \in 1..(p - 1) : s[q].kind # "bullet"}
  IN IF cands = {} THEN 0
     ELSE CHOOSE q \in cands : \A r \in cands : r <= q

\* The number of bullets directly beneath position q.
BulletsBeneath(s, q) ==
  Cardinality({p \in (q + 1)..Len(s) :
                 \A r \in (q + 1)..p : s[r].kind = "bullet"})

\* The input entries a header block of the given kind stands for.
EntriesFor(kind) ==
  IF kind = "jobHeader" THEN ItemsOf(data.professionalExperience)
  ELSE ItemsOf(data.leadership)

JobLine(job) ==
  job.role \o " | " \o job.company \o ", " \o job.location \o " | "
  \o job.dates
LeadLine(lead) ==
  lead.role \o " | " \o lead.organization \o " | " \o lead.dates
CertLine(cert) ==
  IF TruthyStr(cert.details) THEN cert.name \o " | " \o cert.details
  ELSE cert.name

\* C8: entries and achievements are emitted in input order: the k-th header
\* of a section is the k-th entry of its sequence, and every bullet lies
\* under the header of its own entry, at the place of its achievement.
C8_InputOrderPreserved ==
  ServerBuilt =>
    LET pe == ItemsOf(data.professionalExperience)
        ld == ItemsOf(data.leadership)
        ed == ItemsOf(data.education)
        ce == ItemsOf(data.certifications)
    IN /\ TextsOfKind(children, "jobHeader")
            = [k \in 1..Len(pe) |-> JobLine(pe[k])]
       /\ TextsOfKind(children, "leadHeader")
            = [k \in 1..Len(ld) |-> LeadLine(ld[k])]
       /\ TextsOfKind(children, "degree")
            = [k \in 1..Len(ed) |-> ed[k].degree]
       /\ TextsOfKind(children, "cert")
            = [k \in 1..Len(ce) |-> CertLine(ce[k])]
       /\ \A p \in 1..Len(children) :
            children[p].kind = "eduDetails"
              => /\ p > 2
                 /\ children[p - 1].kind = "institution"
                 /\ children[p - 2].kind = "degree"
                 /\ children[p].text
                      = ed[KindCountUpTo(children, "degree", p)].details
       /\ \A p \in 1..Len(children) :
            children[p].kind = "bullet"
              => LET q == PrevNonBullet(children, p) IN
                 /\ q > 0
                 /\ children[q].kind \in {"jobHeader", "leadHeader"}
                 /\ LET k == KindCountUpTo(children, children[q].kind, q)
                        ach == ItemsOf(EntriesFor(children[q].kind)[k]
                                         .achievements)
                    IN /\ p - q <= Len(ach)
                       /\ children[p].text = ach[p - q]

\* C8 witness: the server has written two jobs, the first with its
\* achievements in the order a2, a1 and the second with another role.
C8_Witness ==
  /\ pc = "done" /\ gen = "server"
  /\ Len(ItemsOf(data.professionalExperience)) = 2
  /\ data.professionalExperience.items[1].achievements = Arr(<<"a2", "a1">>)
  /\ data.professionalExperience.items[1].role = "Manager"
  /\ data.professionalExperience.items[2].role = "Analyst"
  /\ data.professionalExperience.items[2].achievements = Arr(<<"a1">>)
  /\ outFile.content = children
  /\ Len(children) \in {9, 10}

\* C9: beneath each professional-experience or leadership header there are
\* exactly as many bullets as the entry has achievements, none when
\* achievements is empty or absent.
C9_BulletCountIsAchievementCount ==
  ServerBuilt =>
    \A q \in 1..Len(children) :
      children[q].kind \in {"jobHeader", "leadHeader"}
        => BulletsBeneath(children, q)
             = Len(ItemsOf(EntriesFor(children[q].kind)
                             [KindCountUpTo(children, children[q].kind, q)]
                             .achievements))

\* C9 witness: the server has written a leadership entry with no
\* achievements followed by one with two.
C9_Witness ==
  /\ pc = "done" /\ gen = "server"
  /\ Len(ItemsOf(data.leadership)) = 2
  /\ ~data.leadership.items[1].achievements.defined
  /\ Len(ItemsOf(data.leadership.items[2].achievements)) = 2
  /\ Len(outFile.content) = 8

\* C10: a composition only reads its input: no step from the call to its
\* end, successful or not, changes the caller's data object.
C10_InputNotMutated ==
  [][(pc \in {"called", "packing"}) => (data' = data)]_vars

\* C10 witness: a composition of an input with unordered competencies,
\* achievements and entries has finished and the data is as it was passed.
C10_Witness ==
  /\ pc = "done" /\ gen = "server" /\ outFile.exists
  /\ data.coreCompetencies = Arr(<<"B", "A", "C">>)
  /\ data = FullSample("Jane Doe", "Summary")

\* ------------------------------------------------- claims: wrapper's files
\* The calls the wrapper's generateCV has been called for.
Started == {c \in CallIds : calls[c].promise # "none"}
Settled == {c \in CallIds : calls[c].promise \in {"resolved", "rejected"}}

\* file begins with name, each character outside [A-Za-z0-9] replaced by one
\* underscore, then the marker, then a uniqueness suffix, then the extension.
NamedAfter(file, name) ==
  /\ Len(file) > Len(name) + 2
  /\ \A i \in 1..Len(name) :
       file[i] = (IF name[i] \in Alnum THEN name[i] ELSE "_")
  /\ file[Len(name) + 1] = "_CV_Aligned"
  /\ file[Len(file)] = ".docx"

\* C11: the output file name is the candidate name with every character
\* outside [A-Za-z0-9] replaced by exactly one underscore, followed by the
\* marker _CV_Aligned and a generation-time uniqueness suffix, for the
\* wrapper's output path and for the client's download name alike.
C11_FileNameDerivation ==
  /\ \A c \in Started : NamedAfter(calls[c].outputPath, calls[c].name)
  /\ downloadName # <<>> =>
       \E name \in CandidateNames : NamedAfter(downloadName, name)

\* Two calls overlap when both have been made and neither promise settled.
Overlapping(c1, c2) ==
  /\ c1 # c2
  /\ calls[c1].promise = "pending"
  /\ calls[c2].promise = "pending"

\* C12: any two overlapping calls of the wrapper's generateCV, those for the
\* same candidate name within the same millisecond included, use distinct
\* output document paths and distinct temporary data-file paths.
C12_DistinctPaths ==
  \A c1, c2 \in CallIds :
    Overlapping(c1, c2) =>
      /\ calls[c1].outputPath # calls[c2].outputPath
      /\ calls[c1].jsonPath # calls[c2].jsonPath

\* C13: the temporary data file no longer exists once the promise of its
\* call has settled, whichever way the call ended: exit code 0, a non-zero
\* exit code, the 'error' event, or spawn throwing.
C13_TempFileRemoved ==
  \A c \in Settled : ~ExistsSync(outputDir, calls[c].jsonPath)

\* The complete document of a call's data is at its output path.
DocumentWritten(c) ==
  /\ ExistsSync(outputDir, calls[c].outputPath)
  /\ ReadFileSync(outputDir, calls[c].outputPath).complete

\* C15: the wrapper resolves with the output path only when the child
\* exited with code 0 and the complete document is at that path, and
\* whenever it rejects no document exists at the output path.
C15_NoPartialSuccess ==
  \A c \in Settled :
    IF calls[c].promise = "resolved"
    THEN /\ calls[c].value = calls[c].outputPath
         /\ calls[c].code = 0
         /\ DocumentWritten(c)
    ELSE ~ExistsSync(outputDir, calls[c].outputPath)

\* ------------------------------------------------- claims: server's files
\* The files multer stored for the request being handled.
StoredFor(r) == {r.files.jobDescription, r.files.cv} \ {NoUpload}

\* C14: every file multer stored in uploads/ for a POST /api/align request
\* is deleted by the time the handler finishes, whichever response was
\* sent (200, 400 or 500).
C14_UploadsRemoved ==
  handler = "finished" => StoredFor(req) \cap uploads = {}

\* ------------------------------------------------ claims: document layout
\* C16: with the logo asset absent generateCV succeeds, emits no logo block
\* and the name block is the first block; with the asset present the logo
\* block is emitted exactly once and is the first block.
C16_LogoOptional ==
  gen = "server" =>
    /\ pc # "threw"
    /\ Built =>
         LET logos == KindCountUpTo(children, "logo", Len(children)) IN
           IF logoExists
           THEN logos = 1 /\ children[1].kind = "logo"
           ELSE logos = 0 /\ children[1].kind = "name"

C16_Witness ==
  /\ pc = "done" /\ gen = "server" /\ outFile.exists
  /\ ~logoExists
  /\ data = FullSample("Jane Doe", "Summary")
  /\ outFile.content[1].kind = "name"

\* The achievement of the input a bullet block stands for.
AchievementOf(b) ==
  LET entries == IF b.section = SEC_EXPERIENCE
                 THEN ItemsOf(data.professionalExperience)
                 ELSE ItemsOf(data.leadership)
  IN entries[b.entry].achievements.items[b.index]

\* The numbering definition of a section's bullets.
ReferenceOf(section) ==
  IF section = SEC_EXPERIENCE THEN "experience-bullets"
  ELSE "leadership-bullets"

\* The number of definitions of a reference in a numbering configuration.
Definitions(config, reference) ==
  Cardinality({k \in 1..Len(config) : config[k].reference = reference})

\* C17: achievements are true list items, never paragraphs whose text is
\* prefixed with a literal bullet character: every bullet's text is its
\* achievement, every bullet references the numbering definition of its own
\* section, and that reference is defined exactly once in the document.
C17_BulletsAreListItems ==
  Built =>
    \A i \in 1..Len(children) :
      children[i].kind = "bullet" =>
        /\ children[i].text = AchievementOf(children[i])
        /\ children[i].numbering = ReferenceOf(children[i].section)
        /\ Definitions(doc.numbering, children[i].numbering) = 1

\* The bullet at position i is the last one of its group.
LastOfGroup(s, i) == i = Len(s) \/ s[i + 1].kind # "bullet"
\* The bullet at position i is the one before the last one of its group.
BeforeLastOfGroup(s, i) ==
  /\ i < Len(s)
  /\ s[i + 1].kind = "bullet"
  /\ LastOfGroup(s, i + 1)

\* The hints on job headers and degree titles, and on the bullets of
\* Professional Experience all but those that except(children, i) names.
PaginationHints(except(_, _)) ==
  \A i \in 1..Len(children) :
    /\ children[i].kind \in {"jobHeader", "degree"} => children[i].keepNext
    /\ children[i].kind = "bullet" /\ children[i].section = SEC_EXPERIENCE =>
         (children[i].keepNext <=> ~except(children, i))

\* C18 as stated: the job header carries the keep-with-next hint, each
\* achievement bullet after it carries the hint except the bullet before the
\* final one of its group, and every degree title carries the hint.
C18_HintsExceptBeforeFinal ==
  ServerBuilt => PaginationHints(BeforeLastOfGroup)

\* C18: the job header carries the keep-with-next hint, each achievement
\* bullet after it carries the hint except the final one of its group, and
\* every degree title carries the hint.
C18_HintsExceptFinal ==
  ServerBuilt => PaginationHints(LastOfGroup)

C18_Witness ==
  /\ pc = "done" /\ gen = "server"
  /\ data = FullSample("Jane Doe", "Summary")
  /\ \E i \in 2..(Len(outFile.content) - 1) :
       /\ outFile.content[i - 1].kind = "jobHeader"
       /\ outFile.content[i - 1].keepNext
       /\ \A k \in i..(i + 1) :
            /\ outFile.content[k].kind = "bullet"
            /\ outFile.content[k].section = SEC_EXPERIENCE
       /\ outFile.content[i].keepNext
       /\ ~outFile.content[i + 1].keepNext
       /\ LastOfGroup(outFile.content, i + 1)
  /\ \E i \in 1..Len(outFile.content) :
       outFile.content[i].kind = "degree" /\ outFile.content[i].keepNext

MaxPages == 3
Pages == 1..MaxPages

\* A paragraph has a run of that literal text.
Shows(paragraph, text) ==
  \E k \in 1..Len(paragraph) :
    paragraph[k].text = text /\ paragraph[k].field = "none"

\* A paragraph reads "Page <current page> of <total pages>", the numbers
\* being fields.
PageXofY(paragraph) ==
  \E k \in 1..(Len(paragraph) - 3) :
    /\ paragraph[k].text = "Page " /\ paragraph[k].field = "none"
    /\ paragraph[k + 1].field = "CURRENT"
    /\ paragraph[k + 2].text = " of " /\ paragraph[k + 2].field = "none"
    /\ paragraph[k + 3].field = "TOTAL_PAGES"

\* C19: the document has exactly one section; the header shows the
\* confidentiality notice and the candidate's name on every page but the
\* first, whose header is empty; the footer is on every page, the first
\* included, with the copyright line and Page X of Y made of the live
\* current-page and total-pages fields, the same on the first page as on
\* the others.
C19_HeaderAndFooter ==
  ServerBuilt =>
    /\ Len(doc.sections) = 1
    /\ LET section == doc.sections[1] IN
         /\ HeaderOnPage(section, 1) = <<>>
         /\ \A page \in Pages \ {1} :
              /\ Len(HeaderOnPage(section, page)) = 1
              /\ Shows(HeaderOnPage(section, page)[1],
                       "Private and Confidential")
              /\ Shows(HeaderOnPage(section, page)[1], RunText(data.name))
         /\ \A page \in Pages :
              /\ Len(FooterOnPage(section, page)) = 1
              /\ Shows(FooterOnPage(section, page)[1],
                       COPYRIGHT \o " 2026, Noviam Inc. All Rights Reserved.")
              /\ PageXofY(FooterOnPage(section, page)[1])
              /\ FooterOnPage(section, page) = FooterOnPage(section, 1)

C19_Witness ==
  /\ pc = "done" /\ gen = "server" /\ outFile.exists
  /\ data = FullSample("Jane Doe", "Summary")
  /\ Shows(HeaderOnPage(doc.sections[1], 2)[1], "Jane Doe")
  /\ PageXofY(FooterOnPage(doc.sections[1], 1)[1])

GroupSize(b) ==
  LET entries == IF b.section = SEC_EXPERIENCE
                 THEN ItemsOf(data.professionalExperience)
                 ELSE ItemsOf(data.leadership)
  IN Len(entries[b.entry].achievements.items)

\* C23: in generateCV, in each achievements group of length n, of
\* Professional Experience and of Leadership alike, the bullet at 0-based
\* index i carries keep-with-next exactly when i < n - 1, so the only bullet
\* of a group of one carries no hint.
C23_KeepNextIffNotLast ==
  ServerBuilt =>
    \A p \in 1..Len(children) :
      children[p].kind = "bullet" =>
        (children[p].keepNext <=>
           (children[p].index - 1) < GroupSize(children[p]) - 1)

C23_Witness ==
  /\ pc = "done" /\ gen = "server"
  /\ data = With("leadership",
                 Arr(<<Lead("Captain", Arr(<<"a1", "a2", "a1">>))>>))
  /\ \E p \in 1..(Len(outFile.content) - 3) :
       /\ outFile.content[p].kind = "leadHeader"
       /\ \A k \in 1..3 : outFile.content[p + k].kind = "bullet"
       /\ outFile.content[p + 1].keepNext
       /\ outFile.content[p + 2].keepNext
       /\ ~outFile.content[p + 3].keepNext

\* C29: in every block list generateCV can produce, a block carrying the
\* keep-with-next hint is never the last block and is followed by a block of
\* its own section: a heading by a body block of its section, a job or
\* leadership header by its own first bullet, a degree title by its
\* institution line, an institution line by its details line, the Technical
\* line by the Languages line.
C29_HintIsFollowed ==
  ServerBuilt =>
    \A p \in 1..Len(children) :
      children[p].keepNext =>
        /\ p < Len(children)
        /\ children[p + 1].section = children[p].section
        /\ children[p].kind \in {"jobHeader", "leadHeader"} =>
             /\ children[p + 1].kind = "bullet"
             /\ children[p + 1].entry = children[p].entry
             /\ children[p + 1].index = 1
        /\ children[p].kind = "degree" =>
             children[p + 1].kind = "institution"
        /\ children[p].kind = "institution" =>
             children[p + 1].kind = "eduDetails"
        /\ children[p].kind = "technical" =>
             children[p + 1].kind = "languages"

\* ---------------------------------------------------- claims: the cleanup
\* The last pass removed the files last modified more than one hour before
\* it, and no other file.
RemovedIffOlderThanOneHour ==
  \A st \in lastPass.stats :
    st \in lastPass.removed <=> lastPass.time - st.mtimeMs > OneHour

\* The generated documents among the files the last pass left.
DocumentsLeft ==
  {s \in survivors : s.file.path[Len(s.file.path)] = ".docx"}

\* C21 as stated: a pass deletes a file if and only if its modification
\* time is more than one hour before the pass, and no document is left by
\* the second pass after its creation.
C21_DeletedBySecondPass ==
  /\ RemovedIffOlderThanOneHour
  /\ \A s \in DocumentsLeft : s.passes <= 1

\* C21: a pass deletes a file if and only if its modification time is more
\* than one hour before the pass, and no document is left by the third pass
\* after its creation.
C21_DeletedByThirdPass ==
  /\ RemovedIffOlderThanOneHour
  /\ \A s \in DocumentsLeft : s.passes <= 2

\* A document was seen by a pass less than an hour after it was written and
\* left, and removed by a later pass.
C21_Witness ==
  \E st \in lastPass.removed :
    /\ st.path[Len(st.path)] = ".docx"
    /\ lastPass.time - st.mtimeMs > OneHour
    /\ \E s \in DocumentsLeft : s.passes = 1

\* ------------------------------------------------------------- C24
\* The text block alignCV reads from the response, if there is one.
HasTextBlock == FindText(response.content) # 0
TextOfResponse == response.content[FindText(response.content)].text
Present(field) == field # UNDEF /\ field # ""

\* C24: alignCV, in lib/aligner.js and in api/align.js, never returns an
\* object whose name or professionalSummary is missing or empty; a response
\* without a text block, or whose text is not valid JSON once the fences are
\* stripped, makes it throw; and the document generator is only ever invoked
\* with data that passed the validation.
C24_OnlyValidatedData ==
  /\ alignment.state = "returned" =>
       /\ alignment.data.object
       /\ Present(alignment.data.name)
       /\ Present(alignment.data.professionalSummary)
  /\ alignment.state \in {"returned", "threw"} =>
       /\ ~HasTextBlock => alignment.state = "threw"
       /\ HasTextBlock /\ ~JsonParses(StripFences(TextOfResponse)) =>
            alignment.state = "threw"
  /\ generated # NoAlignment =>
       /\ generated = alignment
       /\ generated.state = "returned"
       /\ Present(generated.data.name)
       /\ Present(generated.data.professionalSummary)

\* A fenced answer was accepted and handed to the generator, by api/align.js.
C24_Witness ==
  /\ aligner = "api"
  /\ HasTextBlock
  /\ StartsWithJsonFence(TrimText(TextOfResponse))
  /\ alignment.state = "returned"
  /\ generated = alignment

\* ------------------------------------------------ claims: the two handlers
\* A file whose name has none of the extensions .pdf, .docx, .txt.
Unsupported(file) ==
  file.kind # "none" /\ ToLowerCase(file.ext) \notin {".pdf", ".docx", ".txt"}
IsError(answer) == answer.status >= 400

\* C22: only PDF, DOCX and TXT files are supported: the upload filter of the
\* Express server, extractText of lib/extractor.js and extractText of the
\* serverless handler reject a file with another extension with an error,
\* and its content is never passed to alignment.
C22_OnlySupportedFiles ==
  /\ \A file \in Attachments :
       Unsupported(file) =>
         /\ ~FileFilter(file)
         /\ ExtractTextThrows(StoredPath(1, "cv", file))
  /\ Unsupported(req.files.jobDescription) \/ Unsupported(req.files.cv) =>
       /\ claudeCalls = <<>>
       /\ handler = "finished" => IsError(res)
  /\ event.method = "POST" /\
     (Unsupported(event.jobDescription) \/ Unsupported(event.cv)) =>
       /\ \A k \in 1..Len(lambdaCalls) :
            /\ lambdaCalls[k].cvText # Content(event.cv)
            /\ lambdaCalls[k].jobDescriptionText
                 # Content(event.jobDescription)
       /\ lambda = "finished" => IsError(lambdaRes)

\* ------------------------------------------------------------- C25
CheckErrors ==
  {"Server configuration error", "Missing job description", "Missing CV",
   "Empty CV", "Invalid content type", "Method not allowed"}
NonBlank(text) == text \notin {UNDEF, "", "   "}
Success(answer) == answer = Respond(200, "none")

\* C25: in both handlers of /api/align every request receives exactly one
\* response; the Claude API is called only after the API key, the non-blank
\* job description, the CV file and the non-blank CV text were checked, in
\* that order; a request that fails a check gets its 4xx or 5xx response
\* without an API call; a success response is sent only after the alignment
\* (and, in Express, the generation) completed.
C25_OneResponseChecksFirst ==
  /\ sent = (IF handler \in {"finally", "finished"} THEN 1 ELSE 0)
  /\ sent = 1 <=> res # NoResponse
  /\ claudeCalls # <<>> =>
       /\ Len(claudeCalls) = 1
       /\ req.apiKey
       /\ NonBlank(claudeCalls[1].jobDescriptionText)
       /\ HasFile(req.files, "cv")
       /\ NonBlank(claudeCalls[1].cvText)
  /\ res # NoResponse => res.status \in {200, 400, 500}
  /\ res.error \in CheckErrors \cup {"Error"} =>
       IsError(res) /\ claudeCalls = <<>>
  /\ res.error = "Missing job description" => req.apiKey
  /\ res.error = "Missing CV" =>
       req.apiKey /\ NonBlank(jobDescriptionText)
  /\ res.error = "Empty CV" =>
       req.apiKey /\ NonBlank(jobDescriptionText) /\ HasFile(req.files, "cv")
  /\ res.status = 200 =>
       Success(res) /\ Len(claudeCalls) = 1 /\ req.aligns /\ req.generates
  /\ lambdaSent = (IF lambda = "finished" THEN 1 ELSE 0)
  /\ lambdaSent = 1 <=> lambdaRes # NoResponse
  /\ lambdaCalls # <<>> =>
       /\ Len(lambdaCalls) = 1
       /\ event.method = "POST"
       /\ event.apiKey
       /\ NonBlank(lambdaCalls[1].jobDescriptionText)
       /\ event.cv # NoAttachment
       /\ NonBlank(lambdaCalls[1].cvText)
  /\ lambdaRes # NoResponse => lambdaRes.status \in {200, 400, 405, 500}
  /\ lambdaRes.error \in CheckErrors =>
       IsError(lambdaRes) /\ lambdaCalls = <<>>
  /\ lambdaRes.error = "Missing job description" => event.apiKey
  /\ lambdaRes.error = "Missing CV" =>
       event.apiKey /\ NonBlank(lambdaJobDescription.text)
  /\ lambdaRes.error = "Empty CV" =>
       /\ event.apiKey
       /\ NonBlank(lambdaJobDescription.text)
       /\ event.cv # NoAttachment
  /\ Success(lambdaRes) => Len(lambdaCalls) = 1 /\ event.aligns
  /\ lambdaRes.status = 200 /\ event.method = "POST" => Success(lambdaRes)

\* Both handlers answered the same form with their success response.
C25_Witness ==
  /\ handler = "finished"
  /\ Success(res)
  /\ lambda = "finished"
  /\ Success(lambdaRes)

\* ------------------------------------------------------------- C30
\* Both handlers are done with the same form, and both got as far as the
\* job description (the key is set, no file was refused or unreadable).
BothChose ==
  /\ handler = "finished"
  /\ lambda = "finished"
  /\ event.method = "POST"
  /\ event.boundary
  /\ req.apiKey
  /\ res.error \notin {"Error", "Processing failed"}
SourceOfLambda ==
  IF lambdaJobDescription.from = "none" THEN "text"
  ELSE lambdaJobDescription.from
JobDescriptionRefused(answer) ==
  answer.error = "Missing job description"

\* C30: for every combination of a job description file (absent, present)
\* and jobDescriptionText (absent, blank, non-blank) the Express handler and
\* the serverless handler take the job description from the same source and
\* both accept it or both refuse it.
C30_SameSourceSameDecision ==
  BothChose =>
    /\ jdFrom = SourceOfLambda
    /\ JobDescriptionRefused(res) <=> JobDescriptionRefused(lambdaRes)

\* ------------------------------------------------ claims: the frontend
\* C26: after any sequence of file selections, textarea inputs and resets it
\* is never the case that a job description file is selected while the
\* textarea holds non-blank text, and a submission sends exactly one of
\* jobDescription and jobDescriptionText.
C26_FileOrTextNotBoth ==
  /\ ~(jdFileInput # NoSelection /\ jdTextarea \notin {"", "   "})
  /\ \A request \in inFlight :
       (request.jobDescription # NoSelection)
         <=> (request.jobDescriptionText = UNDEF)

\* A request with the file is in flight after text had been typed and sent:
\* the selection of the file cleared the textarea.
C26_Witness ==
  /\ submissions = 2
  /\ \E request \in inFlight :
       request.id = 2 /\ request.jobDescription = "jd.pdf"
  /\ jdTextarea = ""
  /\ candidateNameEl # ""

C28_PanelsFollowData ==
  /\ ~(successResult /\ errorResult)
  /\ successResult =>
       alignedCVData # NullCV /\ alignedCVData.name = candidateNameEl
  /\ afterReset =>
       ~successResult /\ ~errorResult /\ alignedCVData = NullCV

====
